---- MODULE Spec2Model ----
(***************************************************************************)
(* A model of the gameplay simulation core of quatronaut2020: the level     *)
(* sequence (resources/level.rs), the gameplay scene that consumes it       *)
(* (states/gameplay.rs, states/transition.rs), the Fader                    *)
(* (components/fade.rs), the fire-rate gate (entities/player.rs,            *)
(* components/launcher.rs) and the Cutscene camera machine                  *)
(* (components/cutscene.rs).                                                *)
(*                                                                          *)
(* f32 values are fixed-point integers: UNIT stands for 1.0, so 0.45 is 45. *)
(* The input grids are chosen so that every product and quotient the code   *)
(* computes is exact on that grid.                                          *)
(***************************************************************************)
EXTENDS Integers, Sequences, FiniteSets, TLC

VARIABLES
    levels,        \* the Levels value under test: small_levels, large_levels, use_small_levels
    init_levels,   \* the Levels value as constructed (history variable)
    popped,        \* history of the pop() calls made on `levels`
    scene,         \* which state is on top of the state stack
    gs,            \* the GameplayState: levels, gameplay_mode, level_is_loaded, updated
    ts,            \* the TransitionState and its world resources
    world,         \* the entities of the world the scenes create and delete
    starts,        \* history of GameplayState::on_start: what was popped, what was spawned
    fader,         \* a Fader: fade_speed, fade_direction, alpha
    fader_last,    \* the last next_alpha_change call on `fader`
    fc,            \* a fire-rate gate: a Player or a Launcher
    fire_log,      \* history of the can_fire calls made on `fc`
    cutscene,      \* a Cutscene
    cs_last,       \* the last next_scale call on `cutscene`
    cs_trace,      \* the statuses `cutscene` has gone through
    cameras,       \* the Transform (scale, z rotation) of every camera entity
    cam_perspective, \* the Perspective resource the camera shake reads
    cam_cutscene,  \* the Cutscene resource the camera zoom reads
    cam_sounds,    \* the transition sound cues played, with the tick they were played on
    cam_ticks,     \* how many times the transition dispatcher has run
    cam_init,      \* the Perspective and Cutscene resources as inserted (history variable)
    mv,            \* a Movement component
    mv_last,       \* the last next_move call on `mv`
    sim,           \* the gameplay world: entities, playable area, frame time, tick, phase
    sim_prev,      \* the entities as they were before the system that ran last
    sim_order,     \* the systems that have run in the current frame, in order
    sim_hits,      \* history of the damage CollisionSystem has applied
    sim_deaths,    \* history of the ghosts summoned and death sounds played
    sim_init,      \* the entities the level started with (history variable)
    ghosts,        \* the ghost entities: Ghost component, scale, alive, killed
    ghost_last,    \* the last GhostSystem run: the ghosts before it and its frame time
    call,          \* the last call of a function under test: its arguments and result
    stage,         \* a gameplay scene: its entities, level_is_loaded, whether it has stopped
    hero           \* the player entity PlayerSystem runs on, its inputs and its lasers

levelVars == <<levels, init_levels, popped>>
gameVars == <<scene, gs, ts, world, starts>>
faderVars == <<fader, fader_last>>
fireVars == <<fc, fire_log>>
cutVars == <<cutscene, cs_last, cs_trace>>
camVars == <<cameras, cam_perspective, cam_cutscene, cam_sounds, cam_ticks, cam_init>>
coreVars == <<levelVars, gameVars, faderVars, fireVars, cutVars>>
moveVars == <<mv, mv_last>>
combatVars == <<sim, sim_prev, sim_order, sim_hits, sim_deaths, sim_init>>
ghostVars == <<ghosts, ghost_last>>
pureVars == <<call>>
stageVars == <<stage>>
heroVars == <<hero>>
auxVars == <<ghostVars, pureVars, stageVars, heroVars>>
simVars == <<camVars, moveVars, combatVars, auxVars>>
vars == <<levels, init_levels, popped, scene, gs, ts, world, starts,
          fader, fader_last, fc, fire_log, cutscene, cs_last, cs_trace,
          cameras, cam_perspective, cam_cutscene, cam_sounds, cam_ticks, cam_init,
          mv, mv_last, sim, sim_prev, sim_order, sim_hits, sim_deaths, sim_init,
          ghosts, ghost_last, call, stage, hero>>

\* 1.0 as a fixed-point integer.
UNIT == 100

\* a * b and a / b on fixed-point values.
Mul(a, b) == (a * b) \div UNIT
Div(a, b) == (a * UNIT) \div b

None == [kind |-> "None"]

----------------------------------------------------------------------------
\* Bounds of the model.

MaxSmall == 3
MaxLarge == 3
ExtraPops == 2
MaxPops == MaxSmall + MaxLarge + ExtraPops

----------------------------------------------------------------------------
\* resources/level.rs

EntityType == {"FlyingEnemy", "SquareEnemy", "Boss", "Player"}

\* LevelMetadata::new
LevelMetadata(layout) == [layout |-> layout]

\* The level definitions the configurations are drawn from. A layout is a
\* sequence of EntityRecord (type, x percentage, y percentage). The levels are
\* pairwise different so that the order of the pops can be observed.
SmallCatalogue(i) ==
    LevelMetadata(<<<<"Player", 50, 50>>, <<"SquareEnemy", 10 * i, 0>>>>)

LargeCatalogue(i) ==
    LevelMetadata(<<<<"Player", 50, 50>>, <<"FlyingEnemy", 0, 10 * i>>,
                    <<"Boss", 90, 10 * i>>>>)

\* get_all_levels: both vectors loaded, small levels in use.
get_all_levels(n, m) ==
    [small_levels |-> [i \in 1..n |-> SmallCatalogue(i)],
     large_levels |-> [i \in 1..m |-> LargeCatalogue(i)],
     use_small_levels |-> TRUE]

\* Vec::pop: the last element and the rest.
VecLast(v) == v[Len(v)]
VecRest(v) == SubSeq(v, 1, Len(v) - 1)

SmallLevel(metadata) == [kind |-> "SmallLevel", metadata |-> metadata]
LargeLevel(metadata) == [kind |-> "LargeLevel", metadata |-> metadata]
TransitionTime(metadata) == [kind |-> "TransitionTime", metadata |-> metadata]
AllDone == [kind |-> "AllDone"]

\* pop with the emptiness test made before the element is removed.
pop_early_test(l) ==
    IF l.use_small_levels
    THEN IF l.small_levels = <<>>
         THEN [levels |-> [l EXCEPT !.use_small_levels = FALSE],
               status |-> None]
         ELSE [levels |-> [l EXCEPT !.small_levels = VecRest(l.small_levels)],
               status |-> SmallLevel(VecLast(l.small_levels))]
    ELSE IF l.large_levels = <<>>
         THEN [levels |-> l, status |-> AllDone]
         ELSE [levels |-> [l EXCEPT !.large_levels = VecRest(l.large_levels)],
               status |-> LargeLevel(VecLast(l.large_levels))]

\* pop that keeps use_small_levels set on the last small level.
pop_keep_flag(l) ==
    IF l.use_small_levels
    THEN IF l.small_levels = <<>>
         THEN [levels |-> l, status |-> None]
         ELSE IF VecRest(l.small_levels) = <<>>
              THEN [levels |-> [l EXCEPT !.small_levels = <<>>],
                    status |-> TransitionTime(VecLast(l.small_levels))]
              ELSE [levels |-> [l EXCEPT !.small_levels = VecRest(l.small_levels)],
                    status |-> SmallLevel(VecLast(l.small_levels))]
    ELSE IF l.large_levels = <<>>
         THEN [levels |-> l, status |-> AllDone]
         ELSE [levels |-> [l EXCEPT !.large_levels = VecRest(l.large_levels)],
               status |-> LargeLevel(VecLast(l.large_levels))]

\* pop that goes on to the large levels when it finds no small level.
pop_fall_through(l) ==
    IF l.use_small_levels /\ l.small_levels # <<>>
    THEN IF VecRest(l.small_levels) = <<>>
         THEN [levels |-> [l EXCEPT !.small_levels = <<>>,
                                    !.use_small_levels = FALSE],
               status |-> TransitionTime(VecLast(l.small_levels))]
         ELSE [levels |-> [l EXCEPT !.small_levels = VecRest(l.small_levels)],
               status |-> SmallLevel(VecLast(l.small_levels))]
    ELSE IF l.large_levels = <<>>
         THEN [levels |-> l, status |-> AllDone]
         ELSE [levels |-> [l EXCEPT !.large_levels = VecRest(l.large_levels)],
               status |-> LargeLevel(VecLast(l.large_levels))]

\* pop that takes the large levels from the front of their vector.
pop_front_large(l) ==
    IF l.use_small_levels
    THEN IF l.small_levels = <<>>
         THEN [levels |-> l, status |-> None]
         ELSE IF VecRest(l.small_levels) = <<>>
              THEN [levels |-> [l EXCEPT !.small_levels = <<>>,
                                         !.use_small_levels = FALSE],
                    status |-> TransitionTime(VecLast(l.small_levels))]
              ELSE [levels |-> [l EXCEPT !.small_levels = VecRest(l.small_levels)],
                    status |-> SmallLevel(VecLast(l.small_levels))]
    ELSE IF l.large_levels = <<>>
         THEN [levels |-> l, status |-> AllDone]
         ELSE [levels |-> [l EXCEPT !.large_levels = Tail(l.large_levels)],
               status |-> LargeLevel(Head(l.large_levels))]
\* Levels::pop: the Levels value after the call and the Option<LevelStatus> returned.
pop(l) ==
    IF l.use_small_levels
    THEN IF l.small_levels = <<>>
         THEN [levels |-> l, status |-> None]
         ELSE IF VecRest(l.small_levels) = <<>>
              THEN [levels |-> [l EXCEPT !.small_levels = <<>>,
                                         !.use_small_levels = FALSE],
                    status |-> TransitionTime(VecLast(l.small_levels))]
              ELSE [levels |-> [l EXCEPT !.small_levels = VecRest(l.small_levels)],
                    status |-> SmallLevel(VecLast(l.small_levels))]
    ELSE IF l.large_levels = <<>>
         THEN [levels |-> l, status |-> AllDone]
         ELSE [levels |-> [l EXCEPT !.large_levels = VecRest(l.large_levels)],
               status |-> LargeLevel(VecLast(l.large_levels))]

\* One call of pop() on the Levels value, recorded with the lengths around it.
Pop ==
    /\ Len(popped) < MaxPops
    /\ LET r == pop(levels)
       IN /\ levels' = r.levels
          /\ popped' = Append(popped,
                 [status |-> r.status,
                  small_before |-> Len(levels.small_levels),
                  small_after |-> Len(r.levels.small_levels),
                  use_small_after |-> r.levels.use_small_levels])
    /\ UNCHANGED <<init_levels, gameVars, faderVars, fireVars, cutVars, simVars>>

----------------------------------------------------------------------------
\* resources/playablearea.rs

\* The screen dimensions the engine reports (width, height), in world units.
ScreenDimensions == {<<2000, 1000>>}

\* PlayableArea::new; the hardcoded percentages are those of the source.
PlayableArea_new(width, height, constrain, hidpi) ==
    IF constrain
    THEN IF hidpi
         THEN [min_x |-> (width * 33) \div 100, max_x |-> (width * 67) \div 100,
               min_y |-> (height * 22) \div 100, max_y |-> (height * 78) \div 100]
         ELSE [min_x |-> (width * 25) \div 100, max_x |-> (width * 75) \div 100,
               min_y |-> (height * 5) \div 100, max_y |-> (height * 95) \div 100]
    ELSE IF hidpi
         THEN [min_x |-> (width * 17) \div 100, max_x |-> (width * 83) \div 100,
               min_y |-> (height * 20) \div 100, max_y |-> (height * 80) \div 100]
         ELSE [min_x |-> (width * 2) \div 100, max_x |-> (width * 98) \div 100,
               min_y |-> (height * 45) \div 1000, max_y |-> (height * 955) \div 1000]

\* PlayableArea::relative_coordinates; the percentages are fixed-point.
relative_coordinates(area, x_percentage, y_percentage) ==
    LET x_diff == area.max_x - area.min_x
        y_diff == area.max_y - area.min_y
    IN <<(x_percentage * x_diff) \div UNIT + area.min_x,
         (y_percentage * y_diff) \div UNIT + area.min_y>>

----------------------------------------------------------------------------
\* states/gameplay.rs, states/transition.rs

\* An entity of the world: what it is, where it is, whether it carries
\* CleanupTag, and the sprite_number of its SpriteRender (0 where it has none).
Entity(type, pos, cleanup) ==
    [type |-> type, x |-> pos[1], y |-> pos[2], cleanup |-> cleanup,
     sprite_number |-> 0]

IsEnemy(e) == e.type \in {"FlyingEnemy", "SquareEnemy", "Boss"}

\* Transform::default, as far as the camera systems use it.
Transform_default == [scale |-> UNIT, rot_z |-> 0]

\* init_camera and init_background: one entity each, at the screen centre, untagged.
init_camera(w) == Entity("Camera", <<w.width \div 2, w.height \div 2>>, FALSE)
init_background(w) == Entity("Background", <<w.width \div 2, w.height \div 2>>, FALSE)

\* init_level: one tagged entity per layout record, at its relative coordinates.
init_level(area, level_metadata) ==
    [i \in 1..Len(level_metadata.layout) |->
        LET rec == level_metadata.layout[i]
        IN Entity(rec[1], relative_coordinates(area, rec[2], rec[3]), TRUE)]

\* GameplayState::new; `updated` records that update has run on this state
\* and `total` the enemies its last update counted.
GameplayState_new(lv, mode) ==
    [levels |-> lv, gameplay_mode |-> mode, level_is_loaded |-> FALSE,
     updated |-> FALSE, total |-> 0]

\* GameplayState::on_start, the match on gameplay_mode and the popped status:
\* the new mode and the entities init_level creates.
start_level(mode, status, area) ==
    IF mode = "LevelMode"
    THEN CASE status.kind \in {"SmallLevel", "LargeLevel"} ->
                [mode |-> mode, spawned |-> init_level(area, status.metadata)]
           [] status.kind = "TransitionTime" ->
                [mode |-> "TransitionMode", spawned |-> <<>>]
           [] status.kind = "AllDone" ->
                [mode |-> "EndlessMode", spawned |-> <<>>]
           [] OTHER -> [mode |-> mode, spawned |-> <<>>]
    ELSE [mode |-> mode, spawned |-> <<>>]

\* GameplayState::on_start: camera, background, the pop, the playable area
\* (constrained only for a SmallLevel) and the level's entities.
GameplayOnStart ==
    /\ scene = "GameplayNew"
    /\ LET r == pop(gs.levels)
           area == PlayableArea_new(world.width, world.height,
                                    r.status.kind = "SmallLevel", world.hidpi)
           s == start_level(gs.gameplay_mode, r.status, area)
       IN /\ gs' = [gs EXCEPT !.levels = r.levels, !.gameplay_mode = s.mode]
          /\ world' = [world EXCEPT
                 !.entities = world.entities
                     \o <<init_camera(world), init_background(world)>> \o s.spawned,
                 !.cameras = Append(@, Transform_default),
                 !.playable_area = area,
                 !.loaded = FALSE]
          /\ starts' = Append(starts,
                 [status |-> r.status, area |-> area, spawned |-> s.spawned])
    /\ scene' = "Gameplay"
    /\ UNCHANGED <<ts, levelVars, faderVars, fireVars, cutVars, simVars>>

----------------------------------------------------------------------------
\* components/fade.rs (resources/fade.rs holds the same code)

Fade == {"Darken", "Lighten", "Done"}

\* Fader::new
Fader_new(fade_speed, fade_direction) ==
    [fade_speed |-> fade_speed,
     fade_direction |-> fade_direction,
     alpha |-> CASE fade_direction = "Darken" -> 0
                 [] fade_direction = "Lighten" -> UNIT
                 [] fade_direction = "Done" -> 0]

\* Fader::fade_completed
fade_completed(f) == f.fade_direction = "Done"

\* Fader::is_darkened, Fader::is_lightened
is_darkened(f) == f.fade_direction = "Darken" /\ f.alpha >= UNIT
is_lightened(f) == f.fade_direction = "Lighten" /\ f.alpha <= 0

\* next_alpha_change of a fader that starts darkening again once it is transparent.
next_alpha_change_pingpong(f, time_delta) ==
    LET change_amt == Mul(f.fade_speed, time_delta)
        f1 == CASE f.fade_direction = "Darken" -> [f EXCEPT !.alpha = @ + change_amt]
                [] f.fade_direction = "Lighten" -> [f EXCEPT !.alpha = @ - change_amt]
                [] f.fade_direction = "Done" -> f
        f2 == IF is_darkened(f1) THEN [f1 EXCEPT !.fade_direction = "Lighten"]
              ELSE IF is_lightened(f1) THEN [f1 EXCEPT !.fade_direction = "Darken"]
              ELSE f1
    IN [fader |-> f2, ret |-> f2.alpha]

\* Fader::next_alpha_change: the fader after the call and the alpha returned.
next_alpha_change(f, time_delta) ==
    LET change_amt == Mul(f.fade_speed, time_delta)
        f1 == CASE f.fade_direction = "Darken" -> [f EXCEPT !.alpha = @ + change_amt]
                [] f.fade_direction = "Lighten" -> [f EXCEPT !.alpha = @ - change_amt]
                [] f.fade_direction = "Done" -> f
        f2 == IF is_darkened(f1) THEN [f1 EXCEPT !.fade_direction = "Lighten"]
              ELSE IF is_lightened(f1) THEN [f1 EXCEPT !.fade_direction = "Done"]
              ELSE f1
    IN [fader |-> f2, ret |-> f2.alpha]

\* FadeStatus::default
FadeStatus_default == [completed |-> FALSE]

\* FadeStatus::update that takes a fader that is no longer darkening for done.
FadeStatus_update_early(st, f) ==
    IF f.fade_direction # "Darken" THEN [completed |-> TRUE] ELSE st

\* FadeStatus::update, FadeStatus::clear
FadeStatus_update(st, f) == IF fade_completed(f) THEN [completed |-> TRUE] ELSE st
FadeStatus_clear(st) == [completed |-> FALSE]

\* The fade speeds and frame times a fader is driven with.
FadeSpeeds == {50, 200, 600}
FadeDts == {0, 10, 25, 60}

\* One call of next_alpha_change, recorded with the fader around it.
FaderTick ==
    /\ \E dt \in FadeDts :
          LET r == next_alpha_change(fader, dt)
          IN /\ fader' = r.fader
             /\ fader_last' = <<[dir_before |-> fader.fade_direction,
                                 alpha_before |-> fader.alpha,
                                 speed |-> fader.fade_speed,
                                 dt |-> dt,
                                 ret |-> r.ret,
                                 dir_after |-> r.fader.fade_direction,
                                 alpha_after |-> r.fader.alpha]>>
    /\ UNCHANGED <<levelVars, gameVars, fireVars, cutVars, simVars>>

----------------------------------------------------------------------------
\* entities/player.rs, components/launcher.rs

\* Player::can_fire with the elapsed time added before the test.
can_fire_player_add_first(p, time) ==
    IF p.seconds_since_firing + time >= p.fire_delay
    THEN [fc |-> [p EXCEPT !.seconds_since_firing = 0], ret |-> TRUE]
    ELSE [fc |-> [p EXCEPT !.seconds_since_firing = @ + time], ret |-> FALSE]

\* Player::can_fire that leaves the counter as it is when it fires.
can_fire_player_keep(p, time) ==
    IF p.seconds_since_firing >= p.fire_delay
    THEN [fc |-> p, ret |-> TRUE]
    ELSE [fc |-> [p EXCEPT !.seconds_since_firing = @ + time], ret |-> FALSE]

\* Player::can_fire: the player after the call and the bool returned.
can_fire_player(p, time) ==
    IF p.seconds_since_firing >= p.fire_delay
    THEN [fc |-> [p EXCEPT !.seconds_since_firing = 0], ret |-> TRUE]
    ELSE [fc |-> [p EXCEPT !.seconds_since_firing = @ + time], ret |-> FALSE]

\* Launcher::can_fire that lets the counter run on after firing.
can_fire_launcher_no_reset(l, time, jitter) ==
    IF l.seconds_since_firing >= l.fire_delay
    THEN [fc |-> [l EXCEPT !.seconds_since_firing = @ + time], ret |-> TRUE]
    ELSE [fc |-> [l EXCEPT !.seconds_since_firing = @ + time], ret |-> FALSE]

\* Launcher::can_fire; jitter is the value rng.gen_range(0.1..0.9) draws.
can_fire_launcher(l, time, jitter) ==
    IF l.seconds_since_firing >= l.fire_delay
    THEN [fc |-> [l EXCEPT !.seconds_since_firing = jitter], ret |-> TRUE]
    ELSE [fc |-> [l EXCEPT !.seconds_since_firing = @ + time], ret |-> FALSE]

\* The values gen_range(0.1..0.9) is sampled at, the fire delays of the
\* prefabs and the frame times.
Jitter == {10, 89}
FireDelays == {50, 100}
FireDts == {25, 50, 100}

MaxCalls == 4

\* One call of can_fire on the gate, recorded with the counter around it.
CanFire ==
    /\ Len(fire_log) < MaxCalls
    /\ \E dt \in FireDts, jitter \in Jitter :
          LET r == IF fc.kind = "Player"
                   THEN can_fire_player(fc, dt)
                   ELSE can_fire_launcher(fc, dt, jitter)
          IN /\ fc' = r.fc
             /\ fire_log' = Append(fire_log,
                    [dt |-> dt,
                     before |-> fc.seconds_since_firing,
                     after |-> r.fc.seconds_since_firing,
                     ret |-> r.ret])
    /\ UNCHANGED <<levelVars, gameVars, faderVars, cutVars, simVars>>

----------------------------------------------------------------------------
\* components/cutscene.rs

CutsceneStatus == {"Zooming", "Reversing", "Spawning", "Completed"}

Some(v) == [kind |-> "Some", value |-> v]

\* Cutscene::new
Cutscene_new(zoom_in_duration, zoom_in_scale, spawn_duration, zoom_out_duration) ==
    [status |-> "Zooming",
     zoom_in_duration |-> zoom_in_duration,
     zoom_in_scale |-> zoom_in_scale,
     spawn_duration |-> spawn_duration,
     zoom_out_duration |-> zoom_out_duration,
     sound_type |-> "GlassTransition",
     already_played_sound |-> FALSE]

\* next_scale whose Reversing arm passes the overshoot on and never completes.
next_scale_no_stop(c, current_scale, time) ==
    CASE c.status = "Completed" -> [cutscene |-> c, ret |-> None]
      [] c.status = "Reversing" ->
            LET scale_factor == Div(UNIT - c.zoom_in_scale, c.zoom_out_duration)
                new_scale == current_scale + Mul(scale_factor, time)
            IN [cutscene |-> c, ret |-> Some(new_scale)]
      [] c.status = "Spawning" ->
            LET left == c.spawn_duration - time
            IN [cutscene |-> [c EXCEPT !.spawn_duration = left,
                                       !.status = IF left <= 0 THEN "Reversing" ELSE @],
                ret |-> Some(current_scale)]
      [] c.status = "Zooming" ->
            IF current_scale <= c.zoom_in_scale
            THEN [cutscene |-> [c EXCEPT !.status = "Spawning"], ret |-> None]
            ELSE LET scale_factor == Div(UNIT - c.zoom_in_scale, c.zoom_in_duration)
                     new_scale == current_scale - Mul(scale_factor, time)
                 IN [cutscene |-> c, ret |-> Some(new_scale)]

\* next_scale that starts reversing as soon as the zoom threshold is passed.
next_scale_skip_spawn(c, current_scale, time) ==
    CASE c.status = "Completed" -> [cutscene |-> c, ret |-> None]
      [] c.status = "Reversing" ->
            LET scale_factor == Div(UNIT - c.zoom_in_scale, c.zoom_out_duration)
                new_scale == current_scale + Mul(scale_factor, time)
            IN IF new_scale >= UNIT
               THEN [cutscene |-> [c EXCEPT !.status = "Completed"], ret |-> Some(UNIT)]
               ELSE [cutscene |-> c, ret |-> Some(new_scale)]
      [] c.status = "Spawning" ->
            LET left == c.spawn_duration - time
            IN [cutscene |-> [c EXCEPT !.spawn_duration = left,
                                       !.status = IF left <= 0 THEN "Reversing" ELSE @],
                ret |-> Some(current_scale)]
      [] c.status = "Zooming" ->
            IF current_scale <= c.zoom_in_scale
            THEN [cutscene |-> [c EXCEPT !.status = "Reversing"], ret |-> None]
            ELSE LET scale_factor == Div(UNIT - c.zoom_in_scale, c.zoom_in_duration)
                     new_scale == current_scale - Mul(scale_factor, time)
                 IN [cutscene |-> c, ret |-> Some(new_scale)]

\* next_scale whose Spawning arm reports no change instead of the current scale.
next_scale_spawn_none(c, current_scale, time) ==
    CASE c.status = "Completed" -> [cutscene |-> c, ret |-> None]
      [] c.status = "Reversing" ->
            LET scale_factor == Div(UNIT - c.zoom_in_scale, c.zoom_out_duration)
                new_scale == current_scale + Mul(scale_factor, time)
            IN IF new_scale >= UNIT
               THEN [cutscene |-> [c EXCEPT !.status = "Completed"], ret |-> Some(UNIT)]
               ELSE [cutscene |-> c, ret |-> Some(new_scale)]
      [] c.status = "Spawning" ->
            LET left == c.spawn_duration - time
            IN [cutscene |-> [c EXCEPT !.spawn_duration = left,
                                       !.status = IF left <= 0 THEN "Reversing" ELSE @],
                ret |-> None]
      [] c.status = "Zooming" ->
            IF current_scale <= c.zoom_in_scale
            THEN [cutscene |-> [c EXCEPT !.status = "Spawning"], ret |-> None]
            ELSE LET scale_factor == Div(UNIT - c.zoom_in_scale, c.zoom_in_duration)
                     new_scale == current_scale - Mul(scale_factor, time)
                 IN [cutscene |-> c, ret |-> Some(new_scale)]

\* Cutscene::next_scale: the cutscene after the call and the Option returned
\* (the three components of the Vector3 are equal, so one value stands for it).
next_scale(c, current_scale, time) ==
    CASE c.status = "Completed" -> [cutscene |-> c, ret |-> None]
      [] c.status = "Reversing" ->
            LET scale_factor == Div(UNIT - c.zoom_in_scale, c.zoom_out_duration)
                new_scale == current_scale + Mul(scale_factor, time)
            IN IF new_scale >= UNIT
               THEN [cutscene |-> [c EXCEPT !.status = "Completed"], ret |-> Some(UNIT)]
               ELSE [cutscene |-> c, ret |-> Some(new_scale)]
      [] c.status = "Spawning" ->
            LET left == c.spawn_duration - time
            IN [cutscene |-> [c EXCEPT !.spawn_duration = left,
                                       !.status = IF left <= 0 THEN "Reversing" ELSE @],
                ret |-> Some(current_scale)]
      [] c.status = "Zooming" ->
            IF current_scale <= c.zoom_in_scale
            THEN [cutscene |-> [c EXCEPT !.status = "Spawning"], ret |-> None]
            ELSE LET scale_factor == Div(UNIT - c.zoom_in_scale, c.zoom_in_duration)
                     new_scale == current_scale - Mul(scale_factor, time)
                 IN [cutscene |-> c, ret |-> Some(new_scale)]

\* The constructor arguments (the first are those of the unit tests), the
\* camera scales and the frame times next_scale is called with.
CutsceneArgs == {<<50, 40, 500, 200>>, <<100, 50, 100, 100>>}
Scales == {0, 30, 40, 45, 70, 100, 130}
CutsceneDts == {0, 50, 100}

MaxTrace == 6

\* One call of next_scale, recorded with the status around it.
NextScale ==
    /\ \E current_scale \in Scales, time \in CutsceneDts :
          LET r == next_scale(cutscene, current_scale, time)
          IN /\ cutscene' = r.cutscene
             /\ cs_last' = <<[status_before |-> cutscene.status,
                              current_scale |-> current_scale,
                              time |-> time,
                              zoom_in_scale |-> cutscene.zoom_in_scale,
                              zoom_out_duration |-> cutscene.zoom_out_duration,
                              ret |-> r.ret,
                              status_after |-> r.cutscene.status]>>
             /\ cs_trace' = IF r.cutscene.status # cutscene.status
                               /\ Len(cs_trace) < MaxTrace
                            THEN Append(cs_trace, r.cutscene.status)
                            ELSE cs_trace
    /\ UNCHANGED <<levelVars, gameVars, faderVars, fireVars, simVars>>

----------------------------------------------------------------------------
\* components/perspective.rs

\* Perspective::new
Perspective_new(scale_factor, scale_min, sound) ==
    [scale_factor |-> scale_factor, scale_min |-> scale_min, status |-> "Zooming",
     already_played_sound |-> FALSE, sound |-> sound]

\* Perspective::default
Perspective_default == Perspective_new(0, 0, "ShortTransition")

\* Perspective::played_sound
Perspective_played_sound(p) == [p EXCEPT !.already_played_sound = TRUE]

----------------------------------------------------------------------------
\* states/gameplay.rs: update and on_stop

\* The frame times a transition scene is driven with.
TransitionDts == {10, 20}

\* The positions, in world.entities, of the enemies (the join over Enemy), of
\* the entities tagged CleanupTag and of the overlay.
EnemyPositions(ents) == {i \in 1..Len(ents) : IsEnemy(ents[i])}
CleanupPositions(ents) == {i \in 1..Len(ents) : ents[i].cleanup}
OverlayPositions(ents) == {i \in 1..Len(ents) : ents[i].type = "Overlay"}

\* The entities left once those at the positions in `gone` are deleted.
RECURSIVE Without(_, _, _)
Without(ents, gone, i) ==
    IF i > Len(ents) THEN <<>>
    ELSE (IF i \in gone THEN <<>> ELSE <<ents[i]>>) \o Without(ents, gone, i + 1)

\* GameplayState::on_stop: every entity tagged CleanupTag is deleted.
gameplay_on_stop(ents) == Without(ents, CleanupPositions(ents), 1)

\* TransitionState::new as gameplay.rs calls it: no cutscene. With it goes
\* the history of the Cutscene statuses its update has read.
TransitionState_new(lv, perspective_shift) ==
    [levels |-> lv, perspective_shift |-> perspective_shift, cutscene |-> None,
     glass_spawned |-> FALSE, fader |-> None, observed |-> {}]

\* GameplayState::update that takes a level with no enemy for a finished one,
\* loaded or not.
GameplayUpdate_unloaded ==
    /\ scene = "Gameplay"
    /\ \E loaded \in {world.loaded, TRUE} :
       \E killed \in SUBSET EnemyPositions(world.entities) :
          /\ (~loaded => killed = {})
          /\ LET ents == Without(world.entities, killed, 1)
                 total == IF loaded THEN Cardinality(EnemyPositions(ents)) ELSE 0
                 level_is_loaded == gs.level_is_loaded \/ total > 0
             IN /\ gs' = [gs EXCEPT !.level_is_loaded = level_is_loaded, !.updated = TRUE,
                                !.total = total]
                /\ IF gs.gameplay_mode = "TransitionMode"
                   THEN /\ scene' = "TransitionNew"
                        /\ ts' = TransitionState_new(gs.levels,
                                     Some(Perspective_new(140, 30, "LongTransition")))
                        /\ world' = [world EXCEPT !.entities = gameplay_on_stop(ents),
                                                  !.loaded = loaded]
                   ELSE IF total = 0
                   THEN /\ scene' = "TransitionNew"
                        /\ ts' = TransitionState_new(gs.levels, None)
                        /\ world' = [world EXCEPT !.entities = gameplay_on_stop(ents),
                                                  !.loaded = loaded]
                   ELSE /\ scene' = "Gameplay"
                        /\ ts' = ts
                        /\ world' = [world EXCEPT !.entities = ents, !.loaded = loaded]
    /\ UNCHANGED <<starts, levelVars, faderVars, fireVars, cutVars, simVars>>

\* GameplayState::update. The dispatched systems are seen by their effect on
\* the enemy population: once the prefabs are loaded they delete `killed`
\* enemies. Then the count, level_is_loaded and the choice of the transition;
\* a Trans::Switch runs on_stop.
GameplayUpdate ==
    /\ scene = "Gameplay"
    /\ \E loaded \in {world.loaded, TRUE} :
       \E killed \in SUBSET EnemyPositions(world.entities) :
          /\ (~loaded => killed = {})
          /\ LET ents == Without(world.entities, killed, 1)
                 total == IF loaded THEN Cardinality(EnemyPositions(ents)) ELSE 0
                 level_is_loaded == gs.level_is_loaded \/ total > 0
             IN /\ gs' = [gs EXCEPT !.level_is_loaded = level_is_loaded, !.updated = TRUE,
                                !.total = total]
                /\ IF gs.gameplay_mode = "TransitionMode"
                   THEN /\ scene' = "TransitionNew"
                        /\ ts' = TransitionState_new(gs.levels,
                                     Some(Perspective_new(140, 30, "LongTransition")))
                        /\ world' = [world EXCEPT !.entities = gameplay_on_stop(ents),
                                                  !.loaded = loaded]
                   ELSE IF total = 0 /\ level_is_loaded
                   THEN /\ scene' = "TransitionNew"
                        /\ ts' = TransitionState_new(gs.levels, None)
                        /\ world' = [world EXCEPT !.entities = gameplay_on_stop(ents),
                                                  !.loaded = loaded]
                   ELSE /\ scene' = "Gameplay"
                        /\ ts' = ts
                        /\ world' = [world EXCEPT !.entities = ents, !.loaded = loaded]
    /\ UNCHANGED <<starts, levelVars, faderVars, fireVars, cutVars, simVars>>

----------------------------------------------------------------------------
\* systems/camera.rs, with the rest of components/cutscene.rs and
\* components/perspective.rs

\* Angles are kept in fifths of a radian, modulo a full turn.
ANGLE == 5
TwoPi == 31

\* A fixed-point value in radians as an angle.
ToAngle(x) == x \div (UNIT \div ANGLE)

PerspectiveStatus == {"Zooming", "Reversing", "Completed"}

\* Cutscene::default
Cutscene_default ==
    [status |-> "Completed",
     zoom_in_duration |-> 0,
     zoom_in_scale |-> UNIT,
     spawn_duration |-> 0,
     zoom_out_duration |-> 0,
     sound_type |-> "GlassTransition",
     already_played_sound |-> TRUE]

\* Cutscene::played_sound
Cutscene_played_sound(c) == [c EXCEPT !.already_played_sound = TRUE]

\* Perspective::next_z_rotation; rng is the value gen_range(-0.5, 0.5) draws.
\* The Perspective is left as it is.
next_z_rotation(p, time, rng) ==
    IF p.status = "Zooming" THEN Some(Mul(rng, time)) ELSE None

\* Perspective::next_scale: the Perspective after the call and the Option returned.
Perspective_next_scale(p, current_scale, time) ==
    CASE p.status = "Completed" -> [perspective |-> p, ret |-> None]
      [] p.status = "Reversing" ->
            LET new_scale == current_scale + Mul(p.scale_factor, time)
            IN IF new_scale >= UNIT
               THEN [perspective |-> [p EXCEPT !.status = "Completed"], ret |-> Some(UNIT)]
               ELSE [perspective |-> p, ret |-> Some(new_scale)]
      [] p.status = "Zooming" ->
            IF current_scale <= p.scale_min
            THEN [perspective |-> [p EXCEPT !.status = "Reversing"], ret |-> None]
            ELSE [perspective |-> p,
                  ret |-> Some(current_scale - Mul(p.scale_factor, time))]

\* The sound cues a scene can log.
MaxSounds == 4

\* Sounds::play_sound, recorded with the tick of the dispatcher it was played on.
play_sound(snds, by, sound_type, tick) ==
    IF Len(snds) < MaxSounds
    THEN Append(snds, [by |-> by, sound |-> sound_type, tick |-> tick])
    ELSE snds

\* CameraShakeSystem::run from camera i on: the rotation of each camera, then
\* the one-shot sound.
RECURSIVE ShakeFrom(_, _, _, _, _, _, _)
ShakeFrom(i, cams, p, snds, dt, rngs, tick) ==
    IF i > Len(cams)
    THEN [cameras |-> cams, perspective |-> p, sounds |-> snds]
    ELSE LET z == next_z_rotation(p, dt, rngs[i])
             cam == IF z # None
                    THEN [cams[i] EXCEPT !.rot_z = (@ + ToAngle(z.value)) % TwoPi]
                    ELSE [cams[i] EXCEPT !.rot_z = 0]
             play == ~p.already_played_sound
         IN ShakeFrom(i + 1, [cams EXCEPT ![i] = cam],
                      IF play THEN Perspective_played_sound(p) ELSE p,
                      IF play THEN play_sound(snds, "Perspective", p.sound, tick) ELSE snds,
                      dt, rngs, tick)

\* CameraShakeSystem::run that never marks the sound as played.
CameraShakeSystem_run_replay(cams, p, snds, dt, rngs, tick) ==
    [cameras |-> ShakeFrom(1, cams, p, snds, dt, rngs, tick).cameras,
     perspective |-> p,
     sounds |-> IF p.already_played_sound THEN snds
                ELSE play_sound(snds, "Perspective", p.sound, tick)]

\* CameraShakeSystem::run
CameraShakeSystem_run(cams, p, snds, dt, rngs, tick) ==
    ShakeFrom(1, cams, p, snds, dt, rngs, tick)

\* CameraZoomSystem::run from camera i on: the scale of each camera, then the
\* one-shot sound.
RECURSIVE ZoomFrom(_, _, _, _, _, _)
ZoomFrom(i, cams, c, snds, dt, tick) ==
    IF i > Len(cams)
    THEN [cameras |-> cams, cutscene |-> c, sounds |-> snds]
    ELSE LET r == next_scale(c, cams[i].scale, dt)
             cam == IF r.ret # None
                    THEN [cams[i] EXCEPT !.scale = r.ret.value]
                    ELSE cams[i]
             play == ~r.cutscene.already_played_sound
         IN ZoomFrom(i + 1, [cams EXCEPT ![i] = cam],
                     IF play THEN Cutscene_played_sound(r.cutscene) ELSE r.cutscene,
                     IF play THEN play_sound(snds, "Cutscene", r.cutscene.sound_type, tick)
                     ELSE snds,
                     dt, tick)

\* CameraZoomSystem::run
CameraZoomSystem_run(cams, c, snds, dt, tick) == ZoomFrom(1, cams, c, snds, dt, tick)

\* How many camera entities the world holds (init_camera adds one at every
\* GameplayState::on_start and none is ever deleted), the values
\* gen_range(-0.5, 0.5) is sampled at and the frame times.
CameraCounts == {1, 2}
ShakeRng == {-40, 40}
CameraDts == {0, 50}

\* The ticks the dispatcher counts before the counter saturates.
MaxCamTicks == 3

\* One dispatch of the transition scene's camera systems with frame time dt:
\* CameraShakeSystem, then CameraZoomSystem (both write the Transform storage,
\* so they run in the order they were added).
CameraDispatch(dt) ==
    /\ \E rngs \in [1..Len(cameras) -> ShakeRng] :
          LET tick == IF cam_ticks < MaxCamTicks THEN cam_ticks + 1 ELSE cam_ticks
              a == CameraShakeSystem_run(cameras, cam_perspective, cam_sounds, dt, rngs, tick)
              b == CameraZoomSystem_run(a.cameras, cam_cutscene, a.sounds, dt, tick)
          IN /\ cameras' = b.cameras
             /\ cam_perspective' = a.perspective
             /\ cam_cutscene' = b.cutscene
             /\ cam_sounds' = b.sounds
             /\ cam_ticks' = tick
    /\ UNCHANGED <<cam_init, coreVars, moveVars, combatVars, auxVars>>

CameraTick == \E dt \in CameraDts : CameraDispatch(dt)

----------------------------------------------------------------------------
\* states/transition.rs, systems/fade.rs

\* TransitionState::on_start: the Perspective resource is inserted when there
\* is a perspective shift and the Cutscene resource when there is a cutscene
\* (the dispatcher's setup provides the default ones otherwise), FadeStatus is
\* reset, and init_overlay gives the overlay a Fader only when there is no
\* perspective shift.
TransitionOnStart ==
    /\ scene = "TransitionNew"
    /\ world' = [world EXCEPT
           !.perspective = IF ts.perspective_shift # None THEN ts.perspective_shift.value
                           ELSE IF @ = None THEN Perspective_default
                           ELSE @,
           !.cutscene = IF ts.cutscene # None THEN ts.cutscene.value
                        ELSE IF @ = None THEN Cutscene_default
                        ELSE @,
           !.fade_status = FadeStatus_default,
           !.entities = @ \o <<Entity("Overlay",
                                      <<world.width \div 2, world.height \div 2>>, FALSE)>>]
    /\ ts' = [ts EXCEPT !.fader = IF ts.perspective_shift = None
                                  THEN Some(Fader_new(600, "Darken"))
                                  ELSE None]
    /\ scene' = "Transition"
    /\ UNCHANGED <<gs, starts, levelVars, faderVars, fireVars, cutVars, simVars>>

\* TransitionState::on_stop: the overlay (the entity with the Fader, or with
\* the Perspective) and every entity tagged CleanupTag are deleted.
transition_on_stop(ents) ==
    Without(ents, CleanupPositions(ents) \cup OverlayPositions(ents), 1)

\* The percentages init_glass puts shards at: the code steps both axes from
\* -4 to 100 by 4, the model keeps the first, the middle and the last step.
GlassGrid == <<<<-4, -4>>, <<48, 48>>, <<100, 100>>>>

\* init_glass: one tagged shard at each point of the grid.
init_glass(area) ==
    [i \in 1..Len(GlassGrid) |->
        Entity("Glass", relative_coordinates(area, GlassGrid[i][1], GlassGrid[i][2]), TRUE)]

\* TransitionState::update on a Reversing cutscene: the sprite of every
\* entity with a BackgroundTag becomes the damaged background.
damaged_backgrounds(ents) ==
    [i \in 1..Len(ents) |->
        IF ents[i].type = "Background" THEN [ents[i] EXCEPT !.sprite_number = 1]
        ELSE ents[i]]

\* managed_scene that looks at the perspective shift only.
managed_scene_shift_only(t) == t.perspective_shift # None

\* TransitionState::update, managed_scene: a perspective shift or a cutscene
\* decides when the scene ends.
managed_scene(t) == t.perspective_shift # None \/ t.cutscene # None

\* TransitionState::update. The dispatch runs FadeSystem on the overlay's
\* Fader, CameraShakeSystem on the Perspective resource (next_z_rotation
\* leaves the Perspective as it is; the sound is played once) and
\* CameraZoomSystem on the Cutscene resource and the cameras' scales; the
\* shards GlassSystem moves stay where init_glass put them. Then the scene is
\* replaced by a GameplayState in LevelMode when the perspective shift is
\* Completed, or when the cutscene is, or, in a scene that is not managed, when
\* the fade is; a cutscene that is Spawning gets its glass once.
TransitionUpdate ==
    /\ scene = "Transition"
    /\ \E dt \in TransitionDts :
          LET faded == IF ts.fader = None THEN None
                       ELSE Some(next_alpha_change(ts.fader.value, dt).fader)
              fade_status == IF faded = None THEN world.fade_status
                             ELSE FadeStatus_update(world.fade_status, faded.value)
              perspective == Perspective_played_sound(world.perspective)
              zoomed == CameraZoomSystem_run(world.cameras, world.cutscene, <<>>, dt, 0)
              shifted == ts.perspective_shift # None /\ perspective.status = "Completed"
              played == ts.cutscene # None /\ zoomed.cutscene.status = "Completed"
              reversing == /\ ~shifted
                           /\ ts.cutscene # None
                           /\ zoomed.cutscene.status = "Reversing"
              spawn == /\ ~shifted
                       /\ ts.cutscene # None
                       /\ zoomed.cutscene.status = "Spawning"
                       /\ ~ts.glass_spawned
              ents == IF reversing THEN damaged_backgrounds(world.entities)
                      ELSE IF spawn THEN world.entities \o init_glass(world.playable_area)
                      ELSE world.entities
              observed == IF ~shifted /\ ts.cutscene # None
                          THEN ts.observed \cup {zoomed.cutscene.status}
                          ELSE ts.observed
              replace == shifted \/ played \/ (fade_status.completed /\ ~managed_scene(ts))
          IN IF replace
             THEN /\ scene' = "GameplayNew"
                  /\ gs' = GameplayState_new(ts.levels, "LevelMode")
                  /\ ts' = [ts EXCEPT !.fader = None, !.observed = observed]
                  /\ world' = [world EXCEPT
                         !.perspective = perspective,
                         !.cutscene = zoomed.cutscene,
                         !.cameras = zoomed.cameras,
                         !.fade_status = IF shifted \/ played
                                         THEN fade_status
                                         ELSE FadeStatus_clear(fade_status),
                         !.entities = transition_on_stop(ents)]
             ELSE /\ scene' = "Transition"
                  /\ gs' = gs
                  /\ ts' = [ts EXCEPT !.fader = faded,
                                      !.glass_spawned = @ \/ spawn,
                                      !.observed = observed]
                  /\ world' = [world EXCEPT !.perspective = perspective,
                                            !.cutscene = zoomed.cutscene,
                                            !.cameras = zoomed.cameras,
                                            !.fade_status = fade_status,
                                            !.entities = ents]
    /\ UNCHANGED <<starts, levelVars, faderVars, fireVars, cutVars, simVars>>

----------------------------------------------------------------------------
\* components/movement.rs
\* Coordinates and speeds are whole pixels and pixels per second.

MovementType == {"Gravitate", "HorizontalRush", "ProjectileRush"}

\* A Movement as launch_projectile and the enemy prefabs build it: at rest,
\* direction not yet locked.
Movement_new(speed, movement_type, launch_sound) ==
    [speed |-> speed, velocity_x |-> 0, velocity_y |-> 0,
     freeze_direction |-> FALSE, locked_direction |-> None,
     already_rotated |-> FALSE, launch_sound |-> launch_sound,
     movement_type |-> movement_type]

Abs(x) == IF x < 0 THEN -x ELSE x

\* The largest distance between two points of the model.
MaxReach == 2048

\* The integer square root of n, searched between lo and hi.
RECURSIVE SqrtIn(_, _, _)
SqrtIn(n, lo, hi) ==
    IF lo >= hi THEN lo
    ELSE LET mid == (lo + hi + 1) \div 2
         IN IF mid * mid <= n THEN SqrtIn(n, mid, hi) ELSE SqrtIn(n, lo, mid - 1)

Hypot(dx, dy) == SqrtIn(dx * dx + dy * dy, 0, MaxReach)

\* speed * cos(atan2(dy, dx)) is speed * dx / hypot(dx, dy), rounded towards
\* zero; atan2(0, 0) is 0, whose cosine is 1 and whose sine is 0.
Along(speed, d, h) ==
    IF d >= 0 THEN (speed * d) \div h ELSE -((speed * (-d)) \div h)

\* Movement::move_towards
move_towards(m, target_x, target_y, current_x, current_y) ==
    LET dx == target_x - current_x
        dy == target_y - current_y
        h == Hypot(dx, dy)
    IN IF dx = 0 /\ dy = 0
       THEN [m EXCEPT !.velocity_x = m.speed, !.velocity_y = 0]
       ELSE [m EXCEPT !.velocity_x = Along(m.speed, dx, h),
                      !.velocity_y = Along(m.speed, dy, h)]

\* The range, on either axis, within which a HorizontalRush enemy sets off.
RUSH_RANGE == 150

\* rush_towards that stores the direction and leaves freeze_direction alone
rush_towards_no_freeze(m, target_x, target_y, target_z, current_x, current_y) ==
    LET player_in_range == \/ Abs(current_x - target_x) <= RUSH_RANGE
                           \/ Abs(current_y - target_y) <= RUSH_RANGE
    IN IF ~m.freeze_direction /\ player_in_range
       THEN [move_towards(m, target_x, target_y, current_x, current_y)
                EXCEPT !.locked_direction = Some(<<target_x, target_y, target_z>>)]
       ELSE m
\* Movement::rush_towards locking again on every call in range
rush_towards_relock(m, target_x, target_y, target_z, current_x, current_y) ==
    LET player_in_range == \/ Abs(current_x - target_x) <= RUSH_RANGE
                           \/ Abs(current_y - target_y) <= RUSH_RANGE
    IN IF player_in_range
       THEN [move_towards(m, target_x, target_y, current_x, current_y)
                EXCEPT !.locked_direction = Some(<<target_x, target_y, target_z>>),
                       !.freeze_direction = TRUE]
       ELSE m

\* Movement::rush_towards
rush_towards(m, target_x, target_y, target_z, current_x, current_y) ==
    LET player_in_range == \/ Abs(current_x - target_x) <= RUSH_RANGE
                           \/ Abs(current_y - target_y) <= RUSH_RANGE
    IN IF ~m.freeze_direction /\ player_in_range
       THEN [move_towards(m, target_x, target_y, current_x, current_y)
                EXCEPT !.locked_direction = Some(<<target_x, target_y, target_z>>),
                       !.freeze_direction = TRUE]
       ELSE m

\* Movement::projectile_rush waiting for the player to come in range
projectile_rush_in_range(m, target_x, target_y, target_z, current_x, current_y) ==
    rush_towards(m, target_x, target_y, target_z, current_x, current_y)

\* Movement::projectile_rush
projectile_rush(m, target_x, target_y, target_z, current_x, current_y) ==
    IF ~m.freeze_direction
    THEN move_towards([m EXCEPT !.locked_direction = Some(<<target_x, target_y, target_z>>),
                                !.freeze_direction = TRUE],
                      target_x, target_y, current_x, current_y)
    ELSE m

\* Movement::next_move
next_move(m, target_x, target_y, target_z, current_x, current_y) ==
    CASE m.movement_type = "Gravitate" ->
            move_towards(m, target_x, target_y, current_x, current_y)
      [] m.movement_type = "HorizontalRush" ->
            rush_towards(m, target_x, target_y, target_z, current_x, current_y)
      [] m.movement_type = "ProjectileRush" ->
            projectile_rush(m, target_x, target_y, target_z, current_x, current_y)

\* The targets (player positions) and the own positions next_move is called
\* with: own positions 0, 150 and 151 pixels from the first target on each axis.
MoveTargets == {<<100, 100, 0>>, <<999, 999, 0>>, <<-200, 40, 0>>}
MoveCoords == {-51, -50, 100, 250, 251}
MoveSpeeds == {100, 250}

\* One call of next_move on the Movement under test.
NextMove ==
    /\ \E t \in MoveTargets, x \in MoveCoords, y \in MoveCoords :
          /\ mv' = next_move(mv, t[1], t[2], t[3], x, y)
          /\ mv_last' = <<[before |-> mv, target |-> t, current |-> <<x, y>>,
                           after |-> mv']>>
    /\ UNCHANGED <<coreVars, camVars, combatVars, auxVars>>

----------------------------------------------------------------------------
\* The systems of the gameplay dispatcher: systems/laser.rs,
\* systems/collision.rs, systems/movement.rs.
\* Coordinates are whole pixels, frame times are fixed-point seconds.

\* An entity of the gameplay world with the components the systems join on.
\* `killed` is the mark Entities::delete leaves until the world is maintained
\* and `deletes` the number of calls of it on the entity; `snaps` and
\* `launches` count the calls of set_rotation_2d and of
\* play_sound(launch_sound) made for the entity.
SimEntity(kind, x, y) ==
    [kind |-> kind, x |-> x, y |-> y, z |-> 0, facing |-> None,
     alive |-> TRUE, killed |-> FALSE, deletes |-> 0,
     health |-> 0, collider |-> None, movement |-> None, laser |-> None,
     invulnerable |-> FALSE, snaps |-> 0, launches |-> 0]

Collider(half_width, half_height) ==
    [half_width |-> half_width, half_height |-> half_height]

Player_entity(x, y, collider, invulnerable) ==
    [SimEntity("Player", x, y) EXCEPT !.collider = collider,
                                      !.invulnerable = invulnerable]

Laser_new(direction, speed) == [direction |-> direction, speed |-> speed]

Laser_entity(x, y, direction, speed) ==
    [SimEntity("Laser", x, y) EXCEPT !.laser = Laser_new(direction, speed)]

Enemy_entity(x, y, health, collider, movement) ==
    [SimEntity("Enemy", x, y) EXCEPT !.health = health, !.collider = collider,
                                     !.movement = movement]

\* launch_projectile
Projectile_entity(x, y, projectile_speed) ==
    [SimEntity("Projectile", x, y) EXCEPT
        !.collider = Collider(16, 16),
        !.movement = Movement_new(projectile_speed, "ProjectileRush",
                                  Some("EnemyBlaster"))]

\* The joins of the systems: the entities alive that carry the components.
HasLaser(e) == e.alive /\ e.laser # None
HasEnemy(e) == e.alive /\ e.kind = "Enemy" /\ e.collider # None
HasMovement(e) == e.alive /\ e.movement # None
HasPlayer(e) == e.alive /\ e.kind = "Player"
HasPlayerCollider(e) == HasPlayer(e) /\ e.collider # None
HasProjectile(e) == e.alive /\ e.kind = "Projectile" /\ e.collider # None

\* Entities::delete on an entity that is alive: it is marked, and stays
\* joined until the world is maintained.
delete(e) == [e EXCEPT !.killed = TRUE, !.deletes = @ + 1]

\* The Result of Entities::delete, were a marked entity refused
delete_is_ok_once(e) == e.alive /\ ~e.killed

\* The Result of Entities::delete: Ok for an entity that is alive, marked
\* already or not, and Err for one that the world no longer holds.
delete_is_ok(e) == e.alive

\* entities.delete(..).unwrap() on the entity i: a failure aborts the run.
delete_unwrap(w, i) ==
    IF delete_is_ok(w.entities[i])
    THEN [w EXCEPT !.entities[i] = delete(@)]
    ELSE [w EXCEPT !.panicked = TRUE]

\* A deletion whose failure is logged or tested and then let go.
delete_quiet(e) == IF delete_is_ok(e) THEN delete(e) ELSE e

\* PlayableArea::out_of_bounds with the edges counted as outside
out_of_bounds_closed(area, x, y) ==
    x <= area.min_x \/ x >= area.max_x \/ y <= area.min_y \/ y >= area.max_y

\* PlayableArea::out_of_bounds
out_of_bounds(area, x, y) ==
    x < area.min_x \/ x > area.max_x \/ y < area.min_y \/ y > area.max_y

\* v * delta_seconds, rounded towards zero.
Scaled(v, dt) == IF v >= 0 THEN (v * dt) \div UNIT ELSE -(((-v) * dt) \div UNIT)

Direction ==
    {"Left", "Up", "LeftUp", "LeftDown", "Right", "Down", "RightUp", "RightDown"}

\* LaserSystem::run: every laser moves along its direction; one that was out
\* of bounds before the move is deleted.
LaserSystem_run(ents, area, dt) ==
    [i \in 1..Len(ents) |->
        LET e == ents[i]
            step == Scaled(e.laser.speed, dt)
            dir == e.laser.direction
            moved == [e EXCEPT
                !.x = CASE dir \in {"Left", "LeftUp", "LeftDown"} -> e.x - step
                        [] dir \in {"Right", "RightUp", "RightDown"} -> e.x + step
                        [] OTHER -> e.x,
                !.y = CASE dir \in {"Up", "LeftUp", "RightUp"} -> e.y + step
                        [] dir \in {"Down", "LeftDown", "RightDown"} -> e.y - step
                        [] OTHER -> e.y]
        IN IF ~HasLaser(e) THEN e
           ELSE IF out_of_bounds(area, e.x, e.y) THEN delete_quiet(moved) ELSE moved]

\* Twice the half extents of the laser's box, 17.5 by 2.5.
LASER_WIDTH == 35
LASER_HEIGHT == 5

\* The box of a laser at (x, y); box coordinates are in half pixels.
aabb_laser(x, y) ==
    [min_x |-> 2 * x - LASER_WIDTH, max_x |-> 2 * x + LASER_WIDTH,
     min_y |-> 2 * y - LASER_HEIGHT, max_y |-> 2 * y + LASER_HEIGHT]

\* Collider::aabb_from_coordinates
aabb_from_coordinates(c, x, y) ==
    [min_x |-> 2 * (x - c.half_width), max_x |-> 2 * (x + c.half_width),
     min_y |-> 2 * (y - c.half_height), max_y |-> 2 * (y + c.half_height)]

\* Collider::intersects with the boxes that only touch left out
intersects_strict(c, x, y, other) ==
    LET this_aabb == aabb_from_coordinates(c, x, y)
    IN /\ this_aabb.min_x < other.max_x /\ this_aabb.max_x > other.min_x
       /\ this_aabb.min_y < other.max_y /\ this_aabb.max_y > other.min_y

\* Collider::intersects: the boxes overlap or touch.
intersects(c, x, y, other) ==
    LET this_aabb == aabb_from_coordinates(c, x, y)
    IN /\ this_aabb.min_x <= other.max_x /\ this_aabb.max_x >= other.min_x
       /\ this_aabb.min_y <= other.max_y /\ this_aabb.max_y >= other.min_y

\* The damage of one laser hit.
LASER_DAMAGE == 20

\* Enemy::is_dead, Enemy::take_damage
is_dead(e) == e.health <= 0
take_damage(e, damage) == [e EXCEPT !.health = e.health - damage]

\* The body of CollisionSystem::run for the laser li and the enemy ei, with
\* the dead-enemy test left out.
CollidePair_no_guard(li, ei, w, tick) ==
    LET l == w.entities[li]
        e == w.entities[ei]
        collides == intersects(e.collider, e.x, e.y, aabb_laser(l.x, l.y))
        hurt == take_damage(e, LASER_DAMAGE)
        killed == is_dead(hurt) /\ delete_is_ok(e)
        struck == [w EXCEPT
            !.entities[ei] = hurt,
            !.hits = Append(@, [laser |-> li, enemy |-> ei, tick |-> tick])]
        lasered == delete_unwrap(struck, li)
    IN IF collides
       THEN IF lasered.panicked \/ ~killed THEN lasered
            ELSE [lasered EXCEPT
                     !.entities[ei] = delete(@),
                     !.deaths = Append(@, [enemy |-> ei, x |-> e.x, y |-> e.y])]
       ELSE w

\* The body of CollisionSystem::run for the laser li and the enemy ei, with
\* the laser left alive after its hit.
CollidePair_keep_laser(li, ei, w, tick) ==
    LET l == w.entities[li]
        e == w.entities[ei]
        collides == intersects(e.collider, e.x, e.y, aabb_laser(l.x, l.y))
        hurt == take_damage(e, LASER_DAMAGE)
        killed == is_dead(hurt) /\ delete_is_ok(e)
        struck == [w EXCEPT
            !.entities[ei] = hurt,
            !.hits = Append(@, [laser |-> li, enemy |-> ei, tick |-> tick])]
        lasered == struck
    IN IF collides /\ ~is_dead(e)
       THEN IF lasered.panicked \/ ~killed THEN lasered
            ELSE [lasered EXCEPT
                     !.entities[ei] = delete(@),
                     !.deaths = Append(@, [enemy |-> ei, x |-> e.x, y |-> e.y])]
       ELSE w

\* The body of CollisionSystem::run for the laser li and the enemy ei: a hit
\* on an enemy not yet dead damages it and deletes the laser; an enemy the
\* hit kills is deleted, its ghost summoned and its death sound played.
CollidePair(li, ei, w, tick) ==
    LET l == w.entities[li]
        e == w.entities[ei]
        collides == intersects(e.collider, e.x, e.y, aabb_laser(l.x, l.y))
        hurt == take_damage(e, LASER_DAMAGE)
        killed == is_dead(hurt) /\ delete_is_ok(e)
        struck == [w EXCEPT
            !.entities[ei] = hurt,
            !.hits = Append(@, [laser |-> li, enemy |-> ei, tick |-> tick])]
        lasered == delete_unwrap(struck, li)
    IN IF collides /\ ~is_dead(e)
       THEN IF lasered.panicked \/ ~killed THEN lasered
            ELSE [lasered EXCEPT
                     !.entities[ei] = delete(@),
                     !.deaths = Append(@, [enemy |-> ei, x |-> e.x, y |-> e.y])]
       ELSE w

\* The loops of CollisionSystem::run from the pair (li, ei) on: for every
\* laser, every enemy, in the order of the entity ids.
RECURSIVE CollideFrom(_, _, _, _)
CollideFrom(li, ei, w, tick) ==
    IF li > Len(w.entities) \/ w.panicked THEN w
    ELSE IF ei > Len(w.entities) THEN CollideFrom(li + 1, 1, w, tick)
    ELSE IF HasLaser(w.entities[li]) /\ HasEnemy(w.entities[ei])
         THEN CollideFrom(li, ei + 1, CollidePair(li, ei, w, tick), tick)
         ELSE CollideFrom(li, ei + 1, w, tick)

\* CollisionSystem::run
CollisionSystem_run(ents, hits, deaths, tick) ==
    CollideFrom(1, 1, [entities |-> ents, hits |-> hits, deaths |-> deaths,
                       panicked |-> FALSE], tick)

\* The body of AttackedSystem::run for the player pi and the enemy ei, with
\* the invulnerability of the player left out.
AttackPair_any_player(pi, ei, w, tick) ==
    LET p == w.entities[pi]
        e == w.entities[ei]
        player_aabb == aabb_from_coordinates(p.collider, p.x, p.y)
        collides == intersects(e.collider, e.x, e.y, player_aabb)
    IN IF collides
       THEN delete_unwrap(
                [w EXCEPT !.cues = Append(@, [sound |-> "PlayerDeath", tick |-> tick])],
                pi)
       ELSE w

\* The body of AttackedSystem::run for the player pi and the enemy ei: on
\* contact with a player that is not invulnerable the PlayerDeath sound is
\* played and the player deleted.
AttackPair(pi, ei, w, tick) ==
    LET p == w.entities[pi]
        e == w.entities[ei]
        player_aabb == aabb_from_coordinates(p.collider, p.x, p.y)
        collides == intersects(e.collider, e.x, e.y, player_aabb)
    IN IF collides /\ ~p.invulnerable
       THEN delete_unwrap(
                [w EXCEPT !.cues = Append(@, [sound |-> "PlayerDeath", tick |-> tick])],
                pi)
       ELSE w

\* The loops of AttackedSystem::run from the pair (pi, ei) on.
RECURSIVE AttackFrom(_, _, _, _)
AttackFrom(pi, ei, w, tick) ==
    IF pi > Len(w.entities) \/ w.panicked THEN w
    ELSE IF ei > Len(w.entities) THEN AttackFrom(pi + 1, 1, w, tick)
    ELSE IF HasPlayerCollider(w.entities[pi]) /\ HasEnemy(w.entities[ei])
         THEN AttackFrom(pi, ei + 1, AttackPair(pi, ei, w, tick), tick)
         ELSE AttackFrom(pi, ei + 1, w, tick)

\* AttackedSystem::run
AttackedSystem_run(ents, cues, tick) ==
    AttackFrom(1, 1, [entities |-> ents, cues |-> cues, panicked |-> FALSE], tick)

\* The body of ProjectileHitSystem::run for the player pi and the projectile
\* qi: on a hit the player, unless invulnerable, and then the projectile are
\* deleted; a projectile out of bounds is deleted.
ProjectilePair(pi, qi, w, area) ==
    LET p == w.entities[pi]
        q == w.entities[qi]
        player_aabb == aabb_from_coordinates(p.collider, p.x, p.y)
        collides == intersects(q.collider, q.x, q.y, player_aabb)
        hit == IF collides /\ ~p.invulnerable THEN delete_unwrap(w, pi) ELSE w
        spent == IF collides /\ ~hit.panicked THEN delete_unwrap(hit, qi) ELSE hit
    IN IF ~spent.panicked /\ out_of_bounds(area, q.x, q.y)
       THEN delete_unwrap(spent, qi)
       ELSE spent

\* The loops of ProjectileHitSystem::run from the pair (pi, qi) on.
RECURSIVE ProjectileFrom(_, _, _, _)
ProjectileFrom(pi, qi, w, area) ==
    IF pi > Len(w.entities) \/ w.panicked THEN w
    ELSE IF qi > Len(w.entities) THEN ProjectileFrom(pi + 1, 1, w, area)
    ELSE IF HasPlayerCollider(w.entities[pi]) /\ HasProjectile(w.entities[qi])
         THEN ProjectileFrom(pi, qi + 1, ProjectilePair(pi, qi, w, area), area)
         ELSE ProjectileFrom(pi, qi + 1, w, area)

\* ProjectileHitSystem::run
ProjectileHitSystem_run(ents, area) ==
    ProjectileFrom(1, 1, [entities |-> ents, panicked |-> FALSE], area)

\* The inner loop of MovementTrackingSystem::run from the player pi on.
RECURSIVE TrackFrom(_, _, _, _, _)
TrackFrom(m, pi, ents, x, y) ==
    IF pi > Len(ents) THEN m
    ELSE IF HasPlayer(ents[pi])
         THEN TrackFrom(next_move(m, ents[pi].x, ents[pi].y, ents[pi].z, x, y),
                        pi + 1, ents, x, y)
         ELSE TrackFrom(m, pi + 1, ents, x, y)

\* MovementTrackingSystem::run
MovementTrackingSystem_run(ents) ==
    [i \in 1..Len(ents) |->
        IF HasMovement(ents[i])
        THEN [ents[i] EXCEPT !.movement = TrackFrom(@, 1, ents, ents[i].x, ents[i].y)]
        ELSE ents[i]]

\* The rotation step of TransformUpdateSystem::run done on every frame
SnapRotation_every_frame(e) ==
    IF e.movement.locked_direction # None
    THEN LET dir == e.movement.locked_direction.value
         IN [e EXCEPT !.facing = Some(<<dir[1] - e.x, dir[2] - e.y>>),
                      !.snaps = @ + 1,
                      !.launches = IF e.movement.launch_sound # None THEN @ + 1 ELSE @,
                      !.movement.already_rotated = TRUE]
    ELSE e

\* The rotation step of TransformUpdateSystem::run: an entity with a locked
\* direction that has not been rotated yet is turned to face it (`facing` is
\* the vector whose angle, less a quarter turn, the rotation is set to) and
\* its launch sound, if it has one, is played.
SnapRotation(e) ==
    IF e.movement.locked_direction # None /\ ~e.movement.already_rotated
    THEN LET dir == e.movement.locked_direction.value
         IN [e EXCEPT !.facing = Some(<<dir[1] - e.x, dir[2] - e.y>>),
                      !.snaps = @ + 1,
                      !.launches = IF e.movement.launch_sound # None THEN @ + 1 ELSE @,
                      !.movement.already_rotated = TRUE]
    ELSE e

\* The first step of TransformUpdateSystem::run with the y axis driven by
\* the x velocity
Integrate_x_only(e, dt) ==
    [e EXCEPT !.x = @ + Scaled(e.movement.velocity_x, dt),
              !.y = @ + Scaled(e.movement.velocity_x, dt)]

\* The first step of TransformUpdateSystem::run: the position moves by
\* velocity * dt on each axis.
Integrate(e, dt) ==
    [e EXCEPT !.x = @ + Scaled(e.movement.velocity_x, dt),
              !.y = @ + Scaled(e.movement.velocity_y, dt)]

\* TransformUpdateSystem::run
TransformUpdateSystem_run(ents, area, dt) ==
    [i \in 1..Len(ents) |->
        IF HasMovement(ents[i])
        THEN LET moved == SnapRotation(Integrate(ents[i], dt))
             IN IF out_of_bounds(area, moved.x, moved.y) THEN delete_quiet(moved) ELSE moved
        ELSE ents[i]]

\* World::maintain: the entities marked for deletion are removed.
maintain(ents) ==
    [i \in 1..Len(ents) |->
        IF ents[i].killed THEN [ents[i] EXCEPT !.alive = FALSE] ELSE ents[i]]
\* The systems GameplayState::on_start registers that act on the enemies,
\* projectiles and lasers, in the order of their registration; systems that
\* touch the same storages run in that order.
GameplaySystems ==
    <<"laser_system", "collision_system", "attacked_system",
      "projectile_hit_system", "movement_tracking_system",
      "transform_update_system">>

\* The frame times, and the number of frames followed.
SimDts == {25, 50}
MaxSimTicks == 4

\* The population of a level: a player, one or two movers, one or two lasers.
SimPlayers == {<<1450, 500>>}
SimPlayerColliders == {Collider(28, 28)}
SimEnemySpots == {<<1200, 500>>, <<1250, 500>>, <<1000, 800>>}
SimHealths == {20, 40}
SimSpeeds == {250}
SimLaserSpeeds == {200}

SimMovers ==
    { <<Enemy_entity(p[1], p[2], h, Collider(32, 32), Movement_new(s, t, snd))>> :
        p \in SimEnemySpots, h \in SimHealths, s \in SimSpeeds,
        t \in MovementType, snd \in {None, Some("EnemyBlaster")} }

SimCompany ==
    { <<>>,
      <<Enemy_entity(1230, 500, 40, Collider(32, 32),
                     Movement_new(250, "Gravitate", None))>>,
      <<Projectile_entity(1250, 500, 250)>> }

SimLasers ==
    { <<Laser_entity(1100, 500, "Right", s)>> : s \in SimLaserSpeeds }
    \cup { <<Laser_entity(1100, 500, "Right", s), Laser_entity(1100, 505, "Right", s)>> :
              s \in SimLaserSpeeds }
    \cup { <<Laser_entity(1100, 500, "Right", s), Laser_entity(1100, 900, "Up", s)>> :
              s \in SimLaserSpeeds }

\* The system the dispatcher runs next, if the frame is not over and no
\* system has aborted the run.
NextSystem ==
    IF sim.panicked THEN "aborted"
    ELSE IF sim.phase <= Len(GameplaySystems) THEN GameplaySystems[sim.phase]
    ELSE "none"

\* What every system run leaves behind: the entities as they were before it,
\* and its name in the order of the frame.
Ran(name) ==
    /\ sim_prev' = sim.entities
    /\ sim_order' = Append(sim_order, name)

LaserSystemRun ==
    /\ NextSystem = "laser_system"
    /\ sim' = [sim EXCEPT !.entities = LaserSystem_run(@, sim.area, sim.dt),
                          !.phase = @ + 1]
    /\ Ran("laser_system")
    /\ UNCHANGED <<sim_hits, sim_deaths, sim_init, coreVars, camVars, moveVars, auxVars>>

CollisionSystemRun ==
    /\ NextSystem = "collision_system"
    /\ LET w == CollisionSystem_run(sim.entities, sim_hits, sim_deaths, sim.tick)
       IN /\ sim' = [sim EXCEPT !.entities = w.entities, !.phase = @ + 1,
                                !.panicked = w.panicked]
          /\ sim_hits' = w.hits
          /\ sim_deaths' = w.deaths
    /\ Ran("collision_system")
    /\ UNCHANGED <<sim_init, coreVars, camVars, moveVars, auxVars>>

AttackedSystemRun ==
    /\ NextSystem = "attacked_system"
    /\ LET w == AttackedSystem_run(sim.entities, sim.cues, sim.tick)
       IN sim' = [sim EXCEPT !.entities = w.entities, !.cues = w.cues,
                             !.phase = @ + 1, !.panicked = w.panicked]
    /\ Ran("attacked_system")
    /\ UNCHANGED <<sim_hits, sim_deaths, sim_init, coreVars, camVars, moveVars, auxVars>>

ProjectileHitSystemRun ==
    /\ NextSystem = "projectile_hit_system"
    /\ LET w == ProjectileHitSystem_run(sim.entities, sim.area)
       IN sim' = [sim EXCEPT !.entities = w.entities, !.phase = @ + 1,
                             !.panicked = w.panicked]
    /\ Ran("projectile_hit_system")
    /\ UNCHANGED <<sim_hits, sim_deaths, sim_init, coreVars, camVars, moveVars, auxVars>>

MovementTrackingSystemRun ==
    /\ NextSystem = "movement_tracking_system"
    /\ sim' = [sim EXCEPT !.entities = MovementTrackingSystem_run(@), !.phase = @ + 1]
    /\ Ran("movement_tracking_system")
    /\ UNCHANGED <<sim_hits, sim_deaths, sim_init, coreVars, camVars, moveVars, auxVars>>

TransformUpdateSystemRun ==
    /\ NextSystem = "transform_update_system"
    /\ sim' = [sim EXCEPT !.entities = TransformUpdateSystem_run(@, sim.area, sim.dt),
                          !.phase = @ + 1]
    /\ Ran("transform_update_system")
    /\ UNCHANGED <<sim_hits, sim_deaths, sim_init, coreVars, camVars, moveVars, auxVars>>

\* The end of the frame: the world is maintained, and the next frame begins
\* with its own frame time.
Maintain ==
    /\ NextSystem = "none"
    /\ sim.tick < MaxSimTicks
    /\ \E dt \in SimDts :
          sim' = [sim EXCEPT !.entities = maintain(@), !.dt = dt,
                             !.tick = @ + 1, !.phase = 1]
    /\ sim_prev' = sim.entities
    /\ sim_order' = <<>>
    /\ UNCHANGED <<sim_hits, sim_deaths, sim_init, coreVars, camVars, moveVars, auxVars>>

NextSim ==
    \/ LaserSystemRun
    \/ CollisionSystemRun
    \/ AttackedSystemRun
    \/ ProjectileHitSystemRun
    \/ MovementTrackingSystemRun
    \/ TransformUpdateSystemRun
    \/ Maintain
----------------------------------------------------------------------------
\* entities/enemy.rs (Ghost), systems/ghost.rs

\* summon_ghost: Ghost { fade_time: 0.2, min_scale: 0.05 }, with the scale
\* of the enemy's Transform.
Ghost_entity(scale) ==
    [ghost |-> [fade_time |-> 20, min_scale |-> 5], scale |-> scale,
     alive |-> TRUE, killed |-> FALSE, deletes |-> 0]

\* Ghost::is_done_fading
is_done_fading(g) == g.fade_time <= 0

\* Ghost::next_scale without the last check against min_scale
Ghost_next_scale_no_check(g, current_scale, timedelta) ==
    LET faded == [g EXCEPT !.fade_time = @ - timedelta]
    IN IF faded.fade_time <= 0 \/ current_scale <= faded.min_scale
       THEN [ghost |-> faded, scale |-> faded.min_scale]
       ELSE LET next_increment == Div(current_scale - faded.min_scale, faded.fade_time)
            IN [ghost |-> faded, scale |-> current_scale - Mul(next_increment, timedelta)]

\* Ghost::next_scale: the Ghost after the call and the scale returned.
Ghost_next_scale(g, current_scale, timedelta) ==
    LET faded == [g EXCEPT !.fade_time = @ - timedelta]
    IN IF faded.fade_time <= 0 \/ current_scale <= faded.min_scale
       THEN [ghost |-> faded, scale |-> faded.min_scale]
       ELSE LET next_increment == Div(current_scale - faded.min_scale, faded.fade_time)
                scaled == current_scale - Mul(next_increment, timedelta)
            IN IF scaled < faded.min_scale
               THEN [ghost |-> faded, scale |-> faded.min_scale]
               ELSE [ghost |-> faded, scale |-> scaled]

\* GhostSystem::run: a ghost done fading is deleted, any other is scaled.
GhostSystem_run(ents, dt) ==
    [i \in 1..Len(ents) |->
        LET e == ents[i]
            r == Ghost_next_scale(e.ghost, e.scale, dt)
        IN IF ~e.alive THEN e
           ELSE IF is_done_fading(e.ghost) THEN delete(e)
           ELSE [e EXCEPT !.ghost = r.ghost, !.scale = r.scale]]

\* The scales of the enemies that leave a ghost, and the frame times.
GhostScales == {4, 50, 100}
GhostDts == {0, 5, 15}

\* One frame: GhostSystem runs, then the world is maintained.
GhostFrame(dt) ==
    /\ \E i \in 1..Len(ghosts) : ghosts[i].alive
    /\ ghosts' = maintain(GhostSystem_run(ghosts, dt))
    /\ ghost_last' = <<[before |-> ghosts, dt |-> dt]>>
    /\ UNCHANGED <<coreVars, camVars, moveVars, combatVars, pureVars, stageVars, heroVars>>

GhostTick == \E dt \in GhostDts : GhostFrame(dt)
----------------------------------------------------------------------------
\* The entities of a gameplay scene and their CleanupTag (states/gameplay.rs,
\* entities/laser.rs, components/launcher.rs, entities/enemy.rs)

\* An entity of the scene: `cleanup` says that the CleanupTag storage holds
\* a tag for it, `queued` that a tag waits in LazyUpdate for the next
\* World::maintain.
StageEntity(type, cleanup, queued) ==
    [type |-> type, cleanup |-> cleanup, queued |-> queued,
     alive |-> TRUE, killed |-> FALSE, deletes |-> 0]

\* What GameplayState::on_start has built: entities with their components.
Built(e) == StageEntity(e.type, e.cleanup, FALSE)

\* spawn_laser: Laser, Transform and SpriteRender are queued, no CleanupTag.
spawn_laser == StageEntity("Laser", FALSE, FALSE)

\* launch_projectile: the CleanupTag is queued with the other components.
launch_projectile == StageEntity("Projectile", FALSE, TRUE)

\* summon_ghost: the CleanupTag is queued with the other components.
summon_ghost == StageEntity("Ghost", FALSE, TRUE)

\* The entities a join over the storage of the given types yields.
Joined(ents, types) == {i \in 1..Len(ents) : ents[i].alive /\ ents[i].type \in types}

EnemyTypes == {"FlyingEnemy", "SquareEnemy", "Boss"}

\* GameplayState::on_stop: every entity joined with a CleanupTag is deleted.
on_stop(ents) ==
    [i \in 1..Len(ents) |->
        IF ents[i].alive /\ ents[i].cleanup THEN delete(ents[i]) ELSE ents[i]]

\* World::maintain: the deleted entities are removed, then the queued
\* components are inserted on those still alive.
World_maintain(ents) ==
    [i \in 1..Len(ents) |->
        LET e == maintain(ents)[i]
        IN IF e.alive /\ e.queued THEN [e EXCEPT !.cleanup = TRUE, !.queued = FALSE]
           ELSE e]

\* The most entities a scene holds in the model.
MaxStage == 7

\* The layouts of the levels played.
StageLayouts ==
    { <<<<"Player", 50, 50>>, <<"FlyingEnemy", 0, 0>>>>,
      <<<<"Player", 50, 50>>, <<"Boss", 80, 0>>>>,
      <<<<"Player", 50, 50>>, <<"Boss", 80, 0>>, <<"SquareEnemy", 0, 50>>>> }

\* The entities at the positions `gone` deleted.
DeleteAll(ents, gone) ==
    [i \in 1..Len(ents) |-> IF i \in gone THEN delete(ents[i]) ELSE ents[i]]

\* One frame of the scene: GameplayState::update, then World::maintain. The
\* dispatcher's systems are seen by the entities they delete and spawn:
\* the enemies in `hit` are killed and leave a ghost each, the player may
\* fire a laser and a boss launch a projectile, the entities in `lost` leave
\* the area or end their life, and the player may be killed. Then the
\* enemies are counted, and the scene is stopped once a level that was
\* loaded has none.
StageUpdate ==
    /\ ~stage.stopped
    /\ \E hit \in SUBSET Joined(stage.entities, EnemyTypes),
          lost \in SUBSET Joined(stage.entities, {"Laser", "Projectile", "Ghost"}),
          fire \in BOOLEAN, launch \in BOOLEAN, dies \in BOOLEAN :
          LET ents == stage.entities
              player == Joined(ents, {"Player"})
              spawned ==
                  [k \in 1..Cardinality(hit) |-> summon_ghost]
                  \o (IF fire /\ player # {} THEN <<spawn_laser>> ELSE <<>>)
                  \o (IF launch /\ Joined(ents, {"Boss"}) # {}
                      THEN <<launch_projectile>> ELSE <<>>)
              dispatched ==
                  DeleteAll(ents, hit \cup lost \cup (IF dies THEN player ELSE {}))
                  \o spawned
              total == Cardinality(Joined(dispatched, EnemyTypes))
              level_is_loaded == stage.level_is_loaded \/ total > 0
              stop == total = 0 /\ level_is_loaded
          IN /\ Len(dispatched) <= MaxStage
             /\ stage' = [entities |-> World_maintain(IF stop THEN on_stop(dispatched)
                                                      ELSE dispatched),
                          level_is_loaded |-> level_is_loaded,
                          stopped |-> stop]
    /\ UNCHANGED <<coreVars, camVars, moveVars, combatVars, ghostVars, pureVars, heroVars>>
----------------------------------------------------------------------------
\* Functions called on their own

\* A call about to be made, and the call once it has returned.
Pending(fn, args) == <<[fn |-> fn, args |-> args, done |-> FALSE, result |-> None]>>
Returned(c, result) == <<[c EXCEPT !.done = TRUE, !.result = result]>>
IsPending(fn) == call # <<>> /\ call[1].fn = fn /\ ~call[1].done
HasReturned(fn) == call # <<>> /\ call[1].fn = fn /\ call[1].done

----------------------------------------------------------------------------
\* f32 arithmetic, for the functions whose results turn on its rounding

\* An f32 that is not negative: mantissa * 2^exponent, the mantissa 0 or of
\* 24 bits; `neg` is the sign. Infinities, NaN and subnormals are left out.
F32(mantissa, exponent) == [m |-> mantissa, e |-> exponent, neg |-> FALSE]
F32Zero == F32(0, 0)
F32One == F32(2^23, -23)
F32Neg(a) == [a EXCEPT !.neg = ~a.neg]

\* t with its lowest bit set if anything was shifted out below it.
Jam(t, sticky) == IF sticky /\ (t % 2) = 0 THEN t + 1 ELSE t

\* s * 2^e, s carrying three bits below the mantissa of which the lowest is
\* sticky, rounded to the nearest f32, ties to even.
RECURSIVE F32Round(_, _)
F32Round(s, e) ==
    IF s = 0 THEN F32Zero
    ELSE IF s >= 2^27 THEN F32Round(Jam(s \div 2, (s % 2) = 1), e + 1)
    ELSE IF s < 2^26 THEN F32Round(s * 2, e - 1)
    ELSE LET m == s \div 8
             r == s % 8
             up == IF r > 4 \/ (r = 4 /\ (m % 2) = 1) THEN m + 1 ELSE m
         IN IF up = 2^24 THEN F32(2^23, e + 4) ELSE F32(up, e + 3)

\* An integer below 2^24 as an f32 (`as f32`).
F32FromInt(n) == F32Round(n, 0)

\* a < b on the magnitudes, and a < b.
F32MagLt(a, b) ==
    IF a.m = 0 THEN b.m # 0
    ELSE IF b.m = 0 THEN FALSE
    ELSE a.e < b.e \/ (a.e = b.e /\ a.m < b.m)

F32Lt(a, b) ==
    IF a.neg /\ ~b.neg THEN ~(a.m = 0 /\ b.m = 0)
    ELSE IF ~a.neg /\ b.neg THEN FALSE
    ELSE IF a.neg THEN F32MagLt(b, a)
    ELSE F32MagLt(a, b)

\* The mantissa of the smaller operand, with three more bits, brought to
\* the exponent of the larger: its whole part and whether a part was lost.
F32Align(m, shift) ==
    IF shift >= 27 THEN [whole |-> 0, lost |-> TRUE]
    ELSE [whole |-> (m * 8) \div (2^shift), lost |-> ((m * 8) % (2^shift)) # 0]

\* a + b, neither negative.
F32Add(a, b) ==
    IF a.m = 0 THEN b
    ELSE IF b.m = 0 THEN a
    ELSE LET hi == IF a.e >= b.e THEN a ELSE b
             lo == IF a.e >= b.e THEN b ELSE a
             low == F32Align(lo.m, hi.e - lo.e)
         IN F32Round(hi.m * 8 + Jam(low.whole, low.lost), hi.e - 3)

\* a - b, for a >= b >= 0.
F32Sub(a, b) ==
    IF b.m = 0 THEN a
    ELSE LET low == F32Align(b.m, a.e - b.e)
         IN IF low.lost
            THEN F32Round(Jam(a.m * 8 - low.whole - 1, TRUE), a.e - 3)
            ELSE F32Round(a.m * 8 - low.whole, a.e - 3)

\* a * b, neither negative: the product of the mantissas is built from
\* their halves of 12 bits.
F32Mul(a, b) ==
    IF a.m = 0 \/ b.m = 0 THEN F32Zero
    ELSE LET half == 2^12
             ah == a.m \div half
             al == a.m % half
             bh == b.m \div half
             bl == b.m % half
             low == al * bl
             mid == ah * bl + al * bh + low \div half
             high == ah * bh + mid \div half
             rest == (mid % half) * half + (low % half)
         IN F32Round(Jam(high * 8 + rest \div (2^21), (rest % (2^21)) # 0),
                     a.e + b.e + 21)

\* The long division a / b of two small whole numbers, b > 0: q holds the
\* bits found so far, rem what is left to divide, e the weight of q's last bit.
RECURSIVE F32DivBits(_, _, _, _)
F32DivBits(q, rem, b, e) ==
    IF q >= 2^26 THEN F32Round(Jam(q, rem # 0), e)
    ELSE F32DivBits(2 * q + (2 * rem) \div b, (2 * rem) % b, b, e - 1)

\* a as f32 / b as f32
F32DivInt(a, b) == IF a = 0 THEN F32Zero ELSE F32DivBits(a \div b, a % b, b, 0)

\* |a|, and a magnitude under a sign.
F32Abs(a) == [a EXCEPT !.neg = FALSE]
F32Signed(a, neg) == [a EXCEPT !.neg = neg]

\* a * b and a + b of any signs; a sum that cancels is +0.0.
F32Times(a, b) == F32Signed(F32Mul(F32Abs(a), F32Abs(b)), a.neg # b.neg)

F32Plus(a, b) ==
    IF a.neg = b.neg THEN F32Signed(F32Add(F32Abs(a), F32Abs(b)), a.neg)
    ELSE IF F32MagLt(a, b) THEN F32Signed(F32Sub(F32Abs(b), F32Abs(a)), b.neg)
    ELSE IF F32MagLt(b, a) THEN F32Signed(F32Sub(F32Abs(a), F32Abs(b)), a.neg)
    ELSE F32Zero

----------------------------------------------------------------------------
\* resources/playablearea.rs on f32

\* The hardcoded percentages of PlayableArea::new, each the f32 nearest its
\* literal: x1, x2, y1, y2.
AreaPercentages(constrain, hidpi) ==
    IF constrain
    THEN IF hidpi
         THEN <<F32(11072963, -25), F32(11240735, -24),   \* 0.33, 0.67
                F32(14763950, -26), F32(13086228, -24)>>  \* 0.22, 0.78
         ELSE <<F32(8388608, -25), F32(12582912, -24),    \* 0.25, 0.75
                F32(13421773, -28), F32(15938355, -24)>>  \* 0.05, 0.95
    ELSE IF hidpi
         THEN <<F32(11408507, -26), F32(13925089, -24),   \* 0.17, 0.83
                F32(13421773, -26), F32(13421773, -24)>>  \* 0.20, 0.80
         ELSE <<F32(10737418, -29), F32(16441672, -24),   \* 0.02, 0.98
                F32(12079596, -28), F32(16022241, -24)>>  \* 0.045, 0.955

\* PlayableArea::new
PlayableArea_new_f32(width, height, constrain, hidpi) ==
    LET p == AreaPercentages(constrain, hidpi)
    IN [min_x |-> F32Mul(width, p[1]), max_x |-> F32Mul(width, p[2]),
        min_y |-> F32Mul(height, p[3]), max_y |-> F32Mul(height, p[4])]

\* PlayableArea::default
PlayableArea_default == [min_x |-> F32Zero, max_x |-> F32Zero,
                         min_y |-> F32Zero, max_y |-> F32Zero]

\* PlayableArea::relative_coordinates
relative_coordinates_f32(area, x_percentage, y_percentage) ==
    LET x_diff == F32Sub(area.max_x, area.min_x)
        y_diff == F32Sub(area.max_y, area.min_y)
        x_pos == F32Add(F32Mul(x_percentage, x_diff), area.min_x)
        y_pos == F32Add(F32Mul(y_percentage, y_diff), area.min_y)
    IN <<x_pos, y_pos>>

\* PlayableArea::out_of_bounds
out_of_bounds_f32(area, x, y) ==
    \/ F32Lt(x, area.min_x) \/ F32Lt(area.max_x, x)
    \/ F32Lt(y, area.min_y) \/ F32Lt(area.max_y, y)

ClampDimension == {"ClampX", "ClampY"}

\* PlayableArea::clamp that holds a value back at the minimum only.
clamp_no_max(area, n, clamp_dimension) ==
    LET min == IF clamp_dimension = "ClampX" THEN area.min_x ELSE area.min_y
    IN IF F32Lt(n, min) THEN min ELSE n

\* PlayableArea::clamp, clamp_x, clamp_y
clamp(area, n, clamp_dimension) ==
    LET min == IF clamp_dimension = "ClampX" THEN area.min_x ELSE area.min_y
        max == IF clamp_dimension = "ClampX" THEN area.max_x ELSE area.max_y
    IN IF F32Lt(n, min) THEN min
       ELSE IF F32Lt(max, n) THEN max
       ELSE n

clamp_x(area, n) == clamp(area, n, "ClampX")
clamp_y(area, n) == clamp(area, n, "ClampY")

\* The window sizes, the areas made of them, the percentages and the
\* coordinates the functions are called on.
AreaDimensions == {<<1280, 720>>, <<1728, 1080>>, <<1920, 1080>>, <<2000, 1000>>}

Areas ==
    {PlayableArea_default}
    \cup { PlayableArea_new_f32(F32FromInt(d[1]), F32FromInt(d[2]), constrain, hidpi) :
              d \in AreaDimensions, constrain \in BOOLEAN, hidpi \in BOOLEAN }

\* 0.0, 0.2, 0.5, 0.8 and 1.0
Percentages ==
    {F32Zero, F32(13421773, -26), F32(2^23, -24), F32(13421773, -24), F32(2^23, -23)}

ClampInputs ==
    {F32Neg(F32FromInt(1)), F32Zero, F32FromInt(40), F32FromInt(500),
     F32FromInt(1700), F32FromInt(5000)}

RelativeCoordinatesCall ==
    /\ IsPending("relative_coordinates")
    /\ LET a == call[1].args
       IN call' = Returned(call[1],
                     relative_coordinates_f32(a.area, a.x_percentage, a.y_percentage))
    /\ UNCHANGED <<coreVars, camVars, moveVars, combatVars, ghostVars, stageVars, heroVars>>

\* clamp_x on the x and clamp_y on the y of a position, as PlayerSystem does.
ClampCall ==
    /\ IsPending("clamp")
    /\ LET a == call[1].args
       IN call' = Returned(call[1], <<clamp_x(a.area, a.x), clamp_y(a.area, a.y)>>)
    /\ UNCHANGED <<coreVars, camVars, moveVars, combatVars, ghostVars, stageVars, heroVars>>

NextArea == RelativeCoordinatesCall \/ ClampCall

----------------------------------------------------------------------------
\* systems/player.rs, entities/laser.rs

\* Direction::from_coordinates on the values of two axes (horizontal,
\* vertical and combine are its steps).
Direction_from_coordinates(x, y) ==
    LET ux == IF x = None THEN F32Zero ELSE x.value
        uy == IF y = None THEN F32Zero ELSE y.value
        horizontal == IF F32Lt(ux, F32Zero) THEN Some("Left")
                      ELSE IF F32Lt(F32Zero, ux) THEN Some("Right")
                      ELSE None
        vertical == IF F32Lt(uy, F32Zero) THEN Some("Down")
                    ELSE IF F32Lt(F32Zero, uy) THEN Some("Up")
                    ELSE None
        combine == IF vertical = None THEN horizontal.value
                   ELSE horizontal.value \o vertical.value
    IN IF horizontal # None THEN Some(combine) ELSE vertical

\* Laser::from_coordinates
Laser_from_coordinates(x, y, speed) ==
    LET maybe_composite == Direction_from_coordinates(x, y)
    IN IF maybe_composite # None
       THEN Some(Laser_new(maybe_composite.value, speed))
       ELSE None

\* PlayerSystem::run on the one entity that has a Player: each axis with a
\* value moves and is clamped into the playable area, the direction follows
\* the mouse or the laser axes, and a laser is spawned at the player when
\* there is a laser to fire and can_fire allows it (of a spawned laser the
\* Laser component is kept). The result is the player after the run with
\* what the run did. The frame time is dt.f as an
\* f32 and dt.s in hundredths of a second.
PlayerSystem_run(h, input, dt) ==
    LET character == h.character
        x == IF input.x_axis # None
             THEN clamp_x(h.area,
                      F32Plus(F32Times(F32Times(dt.f, input.x_axis.value),
                                       character.speed), h.x))
             ELSE h.x
        y == IF input.y_axis # None
             THEN clamp_y(h.area,
                      F32Plus(F32Times(F32Times(dt.f, input.y_axis.value),
                                       character.speed), h.y))
             ELSE h.y
        maybe_direction ==
            IF input.mouse_down
            THEN IF input.mouse_position THEN Some("Mouse") ELSE None
            ELSE Direction_from_coordinates(input.x_laser, input.y_laser)
        maybe_laser ==
            IF maybe_direction # None
            THEN Some(Laser_new(maybe_direction.value, character.laser_speed))
            ELSE Laser_from_coordinates(input.x_laser, input.y_laser,
                                        character.laser_speed)
        gate == IF maybe_laser # None
                THEN can_fire_player(character, dt.s)
                ELSE [fc |-> character, ret |-> FALSE]
        spawned == maybe_laser # None /\ gate.ret
    IN [x |-> x, y |-> y,
        character |-> gate.fc,
        direction |-> IF maybe_direction # None THEN maybe_direction.value
                      ELSE h.direction,
        lasers |-> IF spawned THEN Append(h.lasers, maybe_laser.value)
                   ELSE h.lasers,
        sounds |-> IF spawned THEN h.sounds + 1 ELSE h.sounds,
        maybe_laser |-> maybe_laser,
        called |-> maybe_laser # None,
        ret |-> gate.ret]

\* The values of an axis of the input handler (a stick at rest, 0.0, is
\* drawn on the x axis only), the frame times (0.25 and 0.5 seconds) and the
\* number of runs followed.
AxisValues == {None, Some(F32Neg(F32One)), Some(F32Zero), Some(F32One)}

\* What the laser axes and the mouse may read: nothing, two arrows, a click
\* with the axes at rest, and a click with the pointer off the window.
FireInputs ==
    {[x_laser |-> None, y_laser |-> None, mouse_down |-> FALSE, mouse_position |-> FALSE],
     [x_laser |-> Some(F32Neg(F32One)), y_laser |-> Some(F32One), mouse_down |-> FALSE,
      mouse_position |-> TRUE],
     [x_laser |-> Some(F32Zero), y_laser |-> Some(F32Zero), mouse_down |-> TRUE,
      mouse_position |-> TRUE],
     [x_laser |-> None, y_laser |-> None, mouse_down |-> TRUE, mouse_position |-> FALSE]}

HeroDts == {[s |-> 25, f |-> F32(2^23, -25)], [s |-> 50, f |-> F32(2^23, -24)]}
MaxHeroTicks == 3

\* One run of PlayerSystem. The history kept with the player: the axes that
\* were ever updated, the last run, and the frame times of the can_fire
\* calls that returned false since the last one that returned true.
PlayerTick ==
    /\ hero.tick < MaxHeroTicks
    /\ \E x_axis \in AxisValues, y_axis \in AxisValues \ {Some(F32Zero)},
          fire \in FireInputs,
          dt \in HeroDts :
       \E r \in {PlayerSystem_run(hero,
                     [x_axis |-> x_axis, y_axis |-> y_axis,
                      x_laser |-> fire.x_laser, y_laser |-> fire.y_laser,
                      mouse_down |-> fire.mouse_down,
                      mouse_position |-> fire.mouse_position], dt)} :
             hero' = [hero EXCEPT
                 !.x = r.x, !.y = r.y,
                 !.character = r.character,
                 !.direction = r.direction,
                 !.lasers = r.lasers,
                 !.sounds = r.sounds,
                 !.tick = @ + 1,
                 !.moved_x = @ \/ x_axis # None,
                 !.moved_y = @ \/ y_axis # None,
                 !.fired = @ \/ r.ret,
                 !.waited = IF r.ret THEN 0
                            ELSE IF r.called THEN @ + dt.s ELSE @,
                 !.calls = IF r.called THEN Append(@, r.ret) ELSE @,
                 !.last = <<[fire_input |-> r.maybe_laser # None,
                             called |-> r.called, ret |-> r.ret,
                             spawned |-> Len(r.lasers) - Len(hero.lasers)]>>]
    /\ UNCHANGED <<coreVars, camVars, moveVars, combatVars, ghostVars, pureVars,
                   stageVars>>
----------------------------------------------------------------------------
\* resources/level.rs (the text level format)

\* A row of the level config is a String, here the sequence of its chars.
\* The entity a char stands for, if any.
EntityOfChar(s) ==
    CASE s = "F" -> Some("FlyingEnemy")
      [] s = "S" -> Some("SquareEnemy")
      [] s = "B" -> Some("Boss")
      [] s = "P" -> Some("Player")
      [] OTHER -> None

\* rows.reverse()
Reverse(rows) == [i \in 1..Len(rows) |-> rows[Len(rows) + 1 - i]]

\* get_coordinates: the grid position over the number of columns and of
\* rows, as fixed-point percentages.
get_coordinates(x_grid_pos, y_grid_pos, num_rows, num_columns) ==
    <<(x_grid_pos * UNIT) \div num_columns, (y_grid_pos * UNIT) \div num_rows>>

\* The inner loop of get_level_entities over the chars of the row r from
\* the index x_index (counted from zero) on.
RECURSIVE RowRecords(_, _, _, _, _)
RowRecords(records, r, x_index, y_index, num_rows) ==
    IF x_index >= Len(r) THEN records
    ELSE LET entity == EntityOfChar(r[x_index + 1])
             xy == get_coordinates(x_index, y_index, num_rows, Len(r))
         IN RowRecords(IF entity # None
                       THEN Append(records, <<entity.value, xy[1], xy[2]>>)
                       ELSE records,
                       r, x_index + 1, y_index, num_rows)

\* The outer loop of get_level_entities from the row y_index on.
RECURSIVE GridRecords(_, _, _)
GridRecords(records, rows, y_index) ==
    IF y_index >= Len(rows) THEN records
    ELSE GridRecords(RowRecords(records, rows[y_index + 1], 0, y_index, Len(rows)),
                     rows, y_index + 1)

\* get_level_entities: the layout of the level, and the rows as it leaves
\* them.
get_level_entities(rows) ==
    [layout |-> GridRecords(<<>>, Reverse(rows), 0), rows |-> Reverse(rows)]

\* The rows of the levels: these, alone or one above the other.
LevelRows ==
    { <<"P", " ", " ", " ", "F">>, <<"P">>, <<"F">>, <<" ", "S">>, <<"B", " ">>,
      <<" ", " ", " ">>, <<"S", "F", "P">>, <<"F", " ", " ", "F">>, <<>>,
      <<" ", "x", "P", " ">> }

LevelGrids ==
    { <<r>> : r \in LevelRows } \cup { <<r1, r2>> : r1 \in LevelRows, r2 \in LevelRows }

GetLevelEntitiesCall ==
    /\ IsPending("get_level_entities")
    /\ call' = Returned(call[1], get_level_entities(call[1].args))
    /\ UNCHANGED <<coreVars, camVars, moveVars, combatVars, ghostVars, stageVars, heroVars>>

\* get_coordinates with the grid positions counted from one
get_coordinates_from_one(x_grid_pos, y_grid_pos, num_rows, num_columns) ==
    <<F32DivInt(x_grid_pos + 1, num_columns), F32DivInt(y_grid_pos + 1, num_rows)>>

\* get_coordinates on f32
get_coordinates_f32(x_grid_pos, y_grid_pos, num_rows, num_columns) ==
    <<F32DivInt(x_grid_pos, num_columns), F32DivInt(y_grid_pos, num_rows)>>

\* get_level_entities on f32: the records of the level, in no order.
get_level_entities_f32(rows) ==
    LET rev == Reverse(rows)
        grid == UNION { {<<y, x>> : x \in 0..(Len(rev[y + 1]) - 1)} :
                           y \in 0..(Len(rev) - 1) }
        cells == {c \in grid : EntityOfChar(rev[c[1] + 1][c[2] + 1]) # None}
    IN { LET xy == get_coordinates_f32(c[2], c[1], Len(rev), Len(rev[c[1] + 1]))
         IN [type |-> EntityOfChar(rev[c[1] + 1][c[2] + 1]).value,
             x_percentage |-> xy[1], y_percentage |-> xy[2]] : c \in cells }

\* init_level on f32: every record with the position its entity is built at.
init_level_f32(area, layout) ==
    { LET pos == relative_coordinates_f32(area, rec.x_percentage, rec.y_percentage)
      IN [type |-> rec.type, x_percentage |-> rec.x_percentage,
          y_percentage |-> rec.y_percentage, x |-> pos[1], y |-> pos[2]] :
      rec \in layout }

\* A level is read from its rows and its entities are built in the area.
InitLevelCall ==
    /\ IsPending("init_level")
    /\ LET a == call[1].args
       IN call' = Returned(call[1], init_level_f32(a.area, get_level_entities_f32(a.rows)))
    /\ UNCHANGED <<coreVars, camVars, moveVars, combatVars, ghostVars, stageVars, heroVars>>

----------------------------------------------------------------------------
\* components/collider.rs

\* The entities the collision test is called on: a Collider and a Transform,
\* of which the test is given the translation only.
ColliderSizes == {Collider(2, 2), Collider(3, 1), Collider(28, 28), Collider(32, 32)}
ColliderXs == {0, 3, 4, 5, 100, 120}
ColliderYs == {0, 4, 5, 90, 100}
ColliderRotations == {0, 8}

ColliderBodies ==
    [collider : ColliderSizes, x : ColliderXs, y : ColliderYs,
     rotation : ColliderRotations]

\* a.collider.intersects(a.x, a.y, &b.collider.aabb_from_coordinates(b.x, b.y)),
\* and the same test the other way round.
IntersectsCall ==
    /\ IsPending("intersects")
    /\ LET a == call[1].args.a
           b == call[1].args.b
       IN call' = Returned(call[1],
                     [forward |-> intersects(a.collider, a.x, a.y,
                                     aabb_from_coordinates(b.collider, b.x, b.y)),
                      reverse |-> intersects(b.collider, b.x, b.y,
                                     aabb_from_coordinates(a.collider, a.x, a.y))])
    /\ UNCHANGED <<coreVars, camVars, moveVars, combatVars, ghostVars, stageVars, heroVars>>
----------------------------------------------------------------------------
\* The specifications. Each one drives one part of the program and leaves
\* the variables of the other parts at rest.

\* k calls of pop()
RECURSIVE PopN(_, _)
PopN(l, k) == IF k = 0 THEN l ELSE PopN(pop(l).levels, k - 1)

LevelsAtRest ==
    /\ levels = get_all_levels(0, 0)
    /\ init_levels = levels
    /\ popped = <<>>

GameAtRest ==
    /\ scene = "None"
    /\ gs = GameplayState_new(get_all_levels(0, 0), "LevelMode")
    /\ ts = TransitionState_new(get_all_levels(0, 0), None)
    /\ world = [entities |-> <<>>, loaded |-> FALSE, width |-> 0, height |-> 0,
                hidpi |-> FALSE, playable_area |-> None, perspective |-> None,
                cutscene |-> None, cameras |-> <<>>,
                fade_status |-> FadeStatus_default]
    /\ starts = <<>>

FaderAtRest ==
    /\ fader = Fader_new(0, "Done")
    /\ fader_last = <<>>

FireAtRest ==
    /\ fc = [kind |-> "Player", fire_delay |-> 0, seconds_since_firing |-> 0]
    /\ fire_log = <<>>

CutsceneAtRest ==
    /\ cutscene = Cutscene_new(0, 0, 0, 0)
    /\ cs_last = <<>>
    /\ cs_trace = <<>>

CameraAtRest ==
    /\ cameras = <<>>
    /\ cam_perspective = Perspective_default
    /\ cam_cutscene = Cutscene_default
    /\ cam_sounds = <<>>
    /\ cam_ticks = 0
    /\ cam_init = [perspective |-> cam_perspective, cutscene |-> cam_cutscene]

CoreAtRest ==
    LevelsAtRest /\ GameAtRest /\ FaderAtRest /\ FireAtRest /\ CutsceneAtRest

MoveAtRest ==
    /\ mv = Movement_new(0, "Gravitate", None)
    /\ mv_last = <<>>

CombatAtRest ==
    /\ sim = [entities |-> <<>>, area |-> PlayableArea_new(0, 0, FALSE, FALSE),
              dt |-> 0, tick |-> 0, phase |-> 1, cues |-> <<>>, panicked |-> FALSE]
    /\ sim_prev = <<>>
    /\ sim_order = <<>>
    /\ sim_hits = <<>>
    /\ sim_deaths = <<>>
    /\ sim_init = <<>>

GhostAtRest ==
    /\ ghosts = <<>>
    /\ ghost_last = <<>>

PureAtRest == call = <<>>

Hero_new(area, x, y, fire_delay, seconds_since_firing) ==
    [x |-> x, y |-> y, area |-> area,
     character |-> [kind |-> "Player", speed |-> F32FromInt(400),
                    laser_speed |-> F32FromInt(1000), fire_delay |-> fire_delay,
                    seconds_since_firing |-> seconds_since_firing],
     direction |-> "Up", lasers |-> <<>>, sounds |-> 0, tick |-> 0,
     start |-> <<x, y>>, moved_x |-> FALSE, moved_y |-> FALSE,
     fired |-> FALSE, waited |-> 0, calls |-> <<>>, last |-> <<>>]

HeroAtRest ==
    hero = [Hero_new(PlayableArea_default, F32Zero, F32Zero, 0, 0)
                EXCEPT !.tick = MaxHeroTicks]

StageAtRest == stage = [entities |-> <<>>, level_is_loaded |-> FALSE, stopped |-> TRUE]

AuxAtRest == GhostAtRest /\ PureAtRest /\ StageAtRest /\ HeroAtRest

SimAtRest == CameraAtRest /\ MoveAtRest /\ CombatAtRest /\ AuxAtRest

\* get_all_levels on a configuration with n small and m large levels.
InitLevels ==
    /\ \E n \in 0..MaxSmall, m \in 0..MaxLarge : levels = get_all_levels(n, m)
    /\ init_levels = levels
    /\ popped = <<>>
    /\ GameAtRest /\ FaderAtRest /\ FireAtRest /\ CutsceneAtRest /\ SimAtRest

\* A GameplayState in LevelMode (main.rs) is started on the Levels value of
\* the game in progress: the levels as loaded, some pops into their sequence.
InitGame ==
    /\ scene = "GameplayNew"
    /\ \E n \in 1..MaxSmall, m \in 0..MaxLarge :
       \E k \in 0..(n + m) :
          gs = GameplayState_new(PopN(get_all_levels(n, m), k), "LevelMode")
    /\ ts = TransitionState_new(get_all_levels(0, 0), None)
    /\ \E d \in ScreenDimensions, hidpi \in BOOLEAN :
          world = [entities |-> <<>>, loaded |-> FALSE, width |-> d[1], height |-> d[2],
                   hidpi |-> hidpi, playable_area |-> None, perspective |-> None,
                   cutscene |-> None, cameras |-> <<>>,
                   fade_status |-> FadeStatus_default]
    /\ starts = <<>>
    /\ LevelsAtRest /\ FaderAtRest /\ FireAtRest /\ CutsceneAtRest /\ SimAtRest

\* The constructor arguments of the cutscenes a transition scene is given:
\* those of CutsceneArgs, one whose spawn_duration is a single short frame
\* and one that zooms out within a frame.
SceneCutscenes == CutsceneArgs \cup {<<50, 40, 10, 200>>, <<50, 40, 20, 10>>}

\* A TransitionState built by TransitionState::new with or without a
\* perspective shift and with or without a cutscene, about to start in the
\* world a gameplay scene has left: its cameras and backgrounds, its playable
\* area, no tagged entity.
InitTransition ==
    /\ scene = "TransitionNew"
    /\ gs = GameplayState_new(get_all_levels(0, 0), "LevelMode")
    /\ \E p \in {None, Some(Perspective_new(140, 30, "LongTransition"))},
          c \in {None} \cup {Some(Cutscene_new(a[1], a[2], a[3], a[4])) : a \in SceneCutscenes} :
          ts = [TransitionState_new(get_all_levels(1, 1), p) EXCEPT !.cutscene = c]
    /\ \E d \in ScreenDimensions, hidpi \in BOOLEAN, k \in CameraCounts :
          LET w == [width |-> d[1], height |-> d[2]]
          IN world = [entities |-> [i \in 1..(2 * k) |->
                                      IF i % 2 = 1 THEN init_camera(w)
                                      ELSE init_background(w)],
                      loaded |-> TRUE, width |-> d[1], height |-> d[2],
                      hidpi |-> hidpi,
                      playable_area |-> PlayableArea_new(d[1], d[2], FALSE, hidpi),
                      perspective |-> None,
                      cutscene |-> None, cameras |-> [i \in 1..k |-> Transform_default],
                      fade_status |-> FadeStatus_default]
    /\ starts = <<>>
    /\ LevelsAtRest /\ FaderAtRest /\ FireAtRest /\ CutsceneAtRest /\ SimAtRest

\* Fader::new with any speed and direction.
InitFader ==
    /\ \E speed \in FadeSpeeds, dir \in Fade : fader = Fader_new(speed, dir)
    /\ fader_last = <<>>
    /\ LevelsAtRest /\ GameAtRest /\ FireAtRest /\ CutsceneAtRest /\ SimAtRest

\* A Player or a Launcher as its prefab loads it, the counter at 0.
InitFire ==
    /\ \E kind \in {"Player", "Launcher"}, delay \in FireDelays :
          fc = [kind |-> kind, fire_delay |-> delay, seconds_since_firing |-> 0]
    /\ fire_log = <<>>
    /\ LevelsAtRest /\ GameAtRest /\ FaderAtRest /\ CutsceneAtRest /\ SimAtRest

\* Cutscene::new, or a Cutscene whose public status was set directly (as the
\* unit tests do).
InitCutscene ==
    /\ \E a \in CutsceneArgs, status \in CutsceneStatus :
          cutscene = [Cutscene_new(a[1], a[2], a[3], a[4]) EXCEPT !.status = status]
    /\ cs_last = <<>>
    /\ cs_trace = <<cutscene.status>>
    /\ LevelsAtRest /\ GameAtRest /\ FaderAtRest /\ FireAtRest /\ SimAtRest

\* A transition scene after on_start: the cameras the gameplay scenes left,
\* the Perspective of a perspective shift or the default one, the Cutscene of
\* a cutscene (in any status, as the tests set it) or the default one.
InitCamera ==
    /\ \E n \in CameraCounts : cameras = [i \in 1..n |-> Transform_default]
    /\ cam_perspective \in {Perspective_default, Perspective_new(140, 30, "LongTransition")}
    /\ \E a \in CutsceneArgs, status \in CutsceneStatus :
          cam_cutscene \in {Cutscene_default,
                            [Cutscene_new(a[1], a[2], a[3], a[4]) EXCEPT !.status = status]}
    /\ cam_sounds = <<>>
    /\ cam_ticks = 0
    /\ cam_init = [perspective |-> cam_perspective, cutscene |-> cam_cutscene]
    /\ CoreAtRest
    /\ MoveAtRest
    /\ CombatAtRest
    /\ AuxAtRest

\* A Movement fresh from a prefab or from launch_projectile.
InitMove ==
    /\ \E speed \in MoveSpeeds, type \in MovementType,
          sound \in {None, Some("EnemyBlaster")} :
          mv = Movement_new(speed, type, sound)
    /\ mv_last = <<>>
    /\ CoreAtRest
    /\ CameraAtRest
    /\ CombatAtRest
    /\ AuxAtRest

\* A constrained level just loaded, at the first frame of its dispatcher.
InitSimWorld ==
    /\ \E d \in ScreenDimensions, p \in SimPlayers, c \in SimPlayerColliders,
          invulnerable \in BOOLEAN, movers \in SimMovers,
          company \in SimCompany, lasers \in SimLasers, dt \in SimDts :
          sim = [entities |-> <<Player_entity(p[1], p[2], c, invulnerable)>>
                                \o movers \o company \o lasers,
                 area |-> PlayableArea_new(d[1], d[2], TRUE, FALSE),
                 dt |-> dt, tick |-> 1, phase |-> 1, cues |-> <<>>,
                 panicked |-> FALSE]
    /\ sim_prev = sim.entities
    /\ sim_order = <<>>
    /\ sim_hits = <<>>
    /\ sim_deaths = <<>>
    /\ sim_init = sim.entities

\* One or two enemies have just been killed and have left their ghosts.
InitGhostWorld ==
    /\ \E n \in 1..2 : \E scales \in [1..n -> GhostScales] :
          ghosts = [i \in 1..n |-> Ghost_entity(scales[i])]
    /\ ghost_last = <<>>

InitGhost ==
    /\ InitGhostWorld
    /\ CoreAtRest
    /\ CameraAtRest
    /\ MoveAtRest
    /\ CombatAtRest
    /\ PureAtRest
    /\ StageAtRest
    /\ HeroAtRest

\* Everything but the function under test is at rest.
OnlyCalls ==
    /\ CoreAtRest
    /\ CameraAtRest
    /\ MoveAtRest
    /\ CombatAtRest
    /\ GhostAtRest
    /\ StageAtRest
    /\ HeroAtRest

InitCollider ==
    /\ \E a, b \in ColliderBodies : call = Pending("intersects", [a |-> a, b |-> b])
    /\ OnlyCalls

InitSim ==
    /\ InitSimWorld
    /\ CoreAtRest
    /\ CameraAtRest
    /\ MoveAtRest
    /\ AuxAtRest

NextGame == GameplayOnStart \/ GameplayUpdate \/ TransitionOnStart \/ TransitionUpdate

SpecLevels == InitLevels /\ [][Pop]_vars
SpecGame == InitGame /\ [][NextGame]_vars
NextTransition == TransitionOnStart \/ TransitionUpdate
SpecTransition == InitTransition /\ [][NextTransition]_vars
SpecFader == InitFader /\ [][FaderTick]_vars
SpecFire == InitFire /\ [][CanFire]_vars
SpecCutscene == InitCutscene /\ [][NextScale]_vars
SpecCamera == InitCamera /\ [][CameraTick]_vars
SpecMove == InitMove /\ [][NextMove]_vars
SpecSim == InitSim /\ [][NextSim]_vars
SpecGhost == InitGhost /\ [][GhostTick]_vars

\* The frame loop dispatches the systems on every frame, and frames with a
\* positive frame time keep coming.
SpecCameraFair ==
    SpecCamera /\ WF_vars(\E dt \in CameraDts \ {0} : CameraDispatch(dt))

\* The engine starts the state it has been handed and then calls its update
\* on every frame; every frame time of TransitionDts is positive.
SpecTransitionFair ==
    SpecTransition /\ WF_vars(TransitionOnStart) /\ WF_vars(TransitionUpdate)

\* GhostSystem runs on every frame, and frames with a positive frame time
\* keep coming.
SpecGhostFair ==
    SpecGhost /\ WF_vars(\E dt \in GhostDts \ {0} : GhostFrame(dt))

\* GameplayState::on_start has run on a level: camera, background and the
\* entities of the layout are in the world.
InitStageWorld ==
    \E d \in ScreenDimensions, layout \in StageLayouts :
       LET w == [width |-> d[1], height |-> d[2]]
           area == PlayableArea_new(d[1], d[2], TRUE, FALSE)
           built == <<init_camera(w), init_background(w)>>
                    \o init_level(area, [layout |-> layout])
       IN stage = [entities |-> [i \in 1..Len(built) |-> Built(built[i])],
                   level_is_loaded |-> FALSE, stopped |-> FALSE]

InitStage ==
    /\ InitStageWorld
    /\ CoreAtRest
    /\ CameraAtRest
    /\ MoveAtRest
    /\ CombatAtRest
    /\ GhostAtRest
    /\ PureAtRest
    /\ HeroAtRest

SpecStage == InitStage /\ [][StageUpdate]_vars

SpecCollider == InitCollider /\ [][IntersectsCall]_vars

\* A call of relative_coordinates or of the clamps is about to be made.
InitArea ==
    /\ \/ \E area \in Areas, x \in Percentages, y \in Percentages :
             call = Pending("relative_coordinates",
                            [area |-> area, x_percentage |-> x, y_percentage |-> y])
       \/ \E area \in Areas, x \in ClampInputs, y \in ClampInputs :
             call = Pending("clamp", [area |-> area, x |-> x, y |-> y])
    /\ OnlyCalls

SpecArea == InitArea /\ [][NextArea]_vars

\* A level of the config is about to be read and built in the playable area
\* that GameplayState::on_start has just made.
InitLevelSpawn ==
    /\ \E rows \in LevelGrids, area \in Areas \ {PlayableArea_default} :
          call = Pending("init_level", [rows |-> rows, area |-> area])
    /\ OnlyCalls

SpecLevelSpawn == InitLevelSpawn /\ [][InitLevelCall]_vars

\* The rows of one level of the config are about to be read.
InitLevelText ==
    /\ \E rows \in LevelGrids : call = Pending("get_level_entities", rows)
    /\ OnlyCalls

SpecLevelText == InitLevelText /\ [][GetLevelEntitiesCall]_vars

\* The player of a level: in a playable area, at the middle of it or, as a
\* prefab's own transform may have it, outside; the fire delay is half a
\* second or a second and the counter is what the prefab gives (0, or the
\* delay itself).
HeroAreas ==
    {PlayableArea_default,
     PlayableArea_new_f32(F32FromInt(1920), F32FromInt(1080), TRUE, TRUE)}

HeroStarts(area) ==
    {<<F32Mul(F32(2^23, -24), F32Add(area.min_x, area.max_x)),
       F32Mul(F32(2^23, -24), F32Add(area.min_y, area.max_y))>>,
     <<F32Neg(F32FromInt(100)), F32FromInt(5000)>>}

InitHeroWorld ==
    \E area \in HeroAreas, gate \in {<<50, 0>>, <<50, 50>>, <<100, 0>>} :
    \E start \in HeroStarts(area) :
       hero = Hero_new(area, start[1], start[2], gate[1], gate[2])

InitHero ==
    /\ InitHeroWorld
    /\ CoreAtRest
    /\ CameraAtRest
    /\ MoveAtRest
    /\ CombatAtRest
    /\ GhostAtRest
    /\ PureAtRest
    /\ StageAtRest

SpecHero == InitHero /\ [][PlayerTick]_vars

\* The whole program: every part started, any of them taking the next step.
Init ==
    /\ \E n \in 0..MaxSmall, m \in 0..MaxLarge : levels = get_all_levels(n, m)
    /\ init_levels = levels
    /\ popped = <<>>
    /\ scene = "GameplayNew"
    /\ gs = GameplayState_new(levels, "LevelMode")
    /\ ts = TransitionState_new(get_all_levels(0, 0), None)
    /\ \E d \in ScreenDimensions, hidpi \in BOOLEAN :
          world = [entities |-> <<>>, loaded |-> FALSE, width |-> d[1], height |-> d[2],
                   hidpi |-> hidpi, playable_area |-> None, perspective |-> None,
                   cutscene |-> None, cameras |-> <<>>,
                   fade_status |-> FadeStatus_default]
    /\ starts = <<>>
    /\ \E speed \in FadeSpeeds, dir \in Fade : fader = Fader_new(speed, dir)
    /\ fader_last = <<>>
    /\ \E kind \in {"Player", "Launcher"}, delay \in FireDelays :
          fc = [kind |-> kind, fire_delay |-> delay, seconds_since_firing |-> 0]
    /\ fire_log = <<>>
    /\ \E a \in CutsceneArgs : cutscene = Cutscene_new(a[1], a[2], a[3], a[4])
    /\ cs_last = <<>>
    /\ cs_trace = <<cutscene.status>>
    /\ \E n \in CameraCounts : cameras = [i \in 1..n |-> Transform_default]
    /\ cam_perspective \in {Perspective_default, Perspective_new(140, 30, "LongTransition")}
    /\ cam_cutscene = Cutscene_default
    /\ cam_sounds = <<>>
    /\ cam_ticks = 0
    /\ cam_init = [perspective |-> cam_perspective, cutscene |-> cam_cutscene]
    /\ \E speed \in MoveSpeeds, type \in MovementType,
          sound \in {None, Some("EnemyBlaster")} :
          mv = Movement_new(speed, type, sound)
    /\ mv_last = <<>>
    /\ InitSimWorld
    /\ InitGhostWorld
    /\ PureAtRest
    /\ InitStageWorld
    /\ InitHeroWorld

Next ==
    \/ Pop \/ NextGame \/ FaderTick \/ CanFire \/ NextScale \/ CameraTick \/ NextMove
    \/ NextSim \/ GhostTick \/ IntersectsCall \/ NextArea
    \/ GetLevelEntitiesCall \/ InitLevelCall \/ StageUpdate \/ PlayerTick

Spec == Init /\ [][Next]_vars

----------------------------------------------------------------------------
\* Level sequencing

KindAt(i, n, m) ==
    IF i < n THEN "SmallLevel"
    ELSE IF i = n THEN "TransitionTime"
    ELSE IF i <= n + m THEN "LargeLevel"
    ELSE "AllDone"

\* C1: for a Levels value holding n >= 1 small and m >= 0 large levels, the
\* pops yield n-1 SmallLevel, then one TransitionTime, then m LargeLevel, then
\* AllDone on every later call; with one small and one large level the pops
\* are TransitionTime(small), LargeLevel(large), AllDone, AllDone, ...
C1_PopSequence ==
    LET n == Len(init_levels.small_levels)
        m == Len(init_levels.large_levels)
    IN n >= 1 =>
         /\ \A i \in 1..Len(popped) : popped[i].status.kind = KindAt(i, n, m)
         /\ (n = 1 /\ m = 1) =>
              /\ Len(popped) >= 1 =>
                   popped[1].status = TransitionTime(init_levels.small_levels[1])
              /\ Len(popped) >= 2 =>
                   popped[2].status = LargeLevel(init_levels.large_levels[1])
              /\ \A i \in 3..Len(popped) : popped[i].status = AllDone

\* One small and one large level, popped four times.
C1_Witness ==
    /\ Len(init_levels.small_levels) = 1
    /\ Len(init_levels.large_levels) = 1
    /\ Len(popped) = 4
    /\ [i \in 1..4 |-> popped[i].status.kind]
         = <<"TransitionTime", "LargeLevel", "AllDone", "AllDone">>

\* C2: TransitionTime is emitted at most once, exactly on the pop that empties
\* small_levels (so once when small_levels has been drained); that pop sets
\* use_small_levels to false; use_small_levels never becomes true again and
\* no SmallLevel or TransitionTime is emitted afterwards.
C2_TransitionOnce ==
    LET Transitions == {i \in 1..Len(popped) : popped[i].status.kind = "TransitionTime"}
    IN /\ Cardinality(Transitions) <= 1
       /\ \A i \in 1..Len(popped) :
             /\ (i \in Transitions)
                  <=> (popped[i].small_before > 0 /\ popped[i].small_after = 0)
             /\ i \in Transitions => ~popped[i].use_small_after
             /\ \A j \in (i + 1)..Len(popped) :
                   ~popped[i].use_small_after =>
                      /\ ~popped[j].use_small_after
                      /\ popped[j].status.kind \notin {"SmallLevel", "TransitionTime"}
       /\ (init_levels.small_levels # <<>> /\ levels.small_levels = <<>>)
             => Cardinality(Transitions) = 1
       /\ popped # <<>> => levels.use_small_levels = popped[Len(popped)].use_small_after

\* Three small levels drained, and pops made after the TransitionTime.
C2_Witness ==
    /\ Len(init_levels.small_levels) = 3
    /\ Len(popped) >= 5
    /\ popped[3].status.kind = "TransitionTime"
    /\ ~levels.use_small_levels

----------------------------------------------------------------------------
\* The gameplay scene

LastStart == starts[Len(starts)]

\* C3: when pop() yields AllDone the gameplay scene switches to the
\* end-of-game state (and does not panic): once update has run on a
\* GameplayState whose on_start popped AllDone, the scene is the AllDone state.
C3_AllDoneEndsGame ==
    (starts # <<>> /\ LastStart.status.kind = "AllDone" /\ gs.updated)
      => scene = "AllDone"

\* C4: every LevelMetadata pop() returns, whether SmallLevel, LargeLevel or
\* TransitionTime carries it, is spawned by the gameplay scene: one entity per
\* layout record, at relative_coordinates of the record's percentages.
C4_EveryLevelSpawned ==
    \A i \in 1..Len(starts) :
       starts[i].status.kind \in {"SmallLevel", "LargeLevel", "TransitionTime"} =>
          LET layout == starts[i].status.metadata.layout
              spawned == starts[i].spawned
          IN /\ Len(spawned) = Len(layout)
             /\ \A j \in 1..Len(layout) :
                   /\ spawned[j].type = layout[j][1]
                   /\ <<spawned[j].x, spawned[j].y>>
                        = relative_coordinates(starts[i].area, layout[j][2], layout[j][3])

----------------------------------------------------------------------------
\* Fader

\* C5: next_alpha_change clamps alpha: on the switch Darken -> Lighten alpha
\* is 1, on the switch Lighten -> Done alpha is 0, and every value returned
\* lies in [0, 1] (speed 2.0, alpha 0, dt 0.6 returns 1.0).
C5_AlphaClamped ==
    \A i \in 1..Len(fader_last) :
       LET c == fader_last[i]
       IN /\ 0 <= c.ret /\ c.ret <= UNIT
          /\ (c.dir_before = "Darken" /\ c.dir_after = "Lighten") => c.alpha_after = UNIT
          /\ (c.dir_before = "Lighten" /\ c.dir_after = "Done") => c.alpha_after = 0

\* C6: the direction only moves Darken -> Lighten -> Done, at most one step
\* per call and never backwards; in Done a call changes neither the direction
\* nor alpha.
C6_FadeOrder ==
    \A i \in 1..Len(fader_last) :
       LET c == fader_last[i]
       IN /\ <<c.dir_before, c.dir_after>> \in
                {<<"Darken", "Darken">>, <<"Darken", "Lighten">>,
                 <<"Lighten", "Lighten">>, <<"Lighten", "Done">>,
                 <<"Done", "Done">>}
          /\ c.dir_before = "Done" =>
                (c.alpha_after = c.alpha_before /\ c.ret = c.alpha_before)
          /\ fader.fade_direction = c.dir_after

\* A call with dt > 0 on a fader that faded out to Done.
C6_Witness ==
    /\ fader_last # <<>>
    /\ fader_last[1].dir_before = "Done"
    /\ fader_last[1].dt > 0
    /\ fader_last[1].speed > 0
    /\ fader_last[1].alpha_before < 0

----------------------------------------------------------------------------
\* Fire-rate gating

\* The first k calls were all made with dt = 0.5 on a gate with fire_delay = 1.0
\* (the counter starts at 0).
HalfSecondCalls(k) ==
    /\ fc.fire_delay = 100
    /\ Len(fire_log) >= k
    /\ fire_log[1].before = 0
    /\ \A i \in 1..k : fire_log[i].dt = 50

\* C7 as stated: with fire_delay = 1.0 and the counter at 0, two calls with
\* dt = 0.5 return false then true.
C7_SecondCallFires ==
    HalfSecondCalls(2) => (~fire_log[1].ret /\ fire_log[2].ret)

\* C7 as amended: the test precedes the accumulation, so three calls with
\* dt = 0.5 return false, false, true; the true call resets the counter (to 0
\* for the Player, below the delay for the Launcher) and a fourth call with
\* dt = 0.5 returns false.
C7_ThirdCallFires ==
    /\ HalfSecondCalls(2) => (~fire_log[1].ret /\ ~fire_log[2].ret)
    /\ HalfSecondCalls(3) =>
          /\ fire_log[3].ret
          /\ fire_log[3].after < fc.fire_delay
          /\ fc.kind = "Player" => fire_log[3].after = 0
    /\ HalfSecondCalls(4) => ~fire_log[4].ret

\* Four calls with dt = 0.5 on a Player with fire_delay = 1.0.
C7_Witness ==
    /\ fc.kind = "Player"
    /\ HalfSecondCalls(4)
    /\ [i \in 1..4 |-> fire_log[i].ret] = <<FALSE, FALSE, TRUE, FALSE>>

\* C8: a call returns true exactly when the counter is >= fire_delay at
\* entry; a call that returns false adds exactly dt to the counter (which so
\* never decreases between two fires); only a call that returns true resets
\* it, and to a value that does not depend on dt (0 for the Player, the
\* jitter in [0.1, 0.9) for the Launcher).
C8_FireCounter ==
    \A i \in 1..Len(fire_log) :
       LET c == fire_log[i]
       IN /\ c.ret <=> (c.before >= fc.fire_delay)
          /\ ~c.ret => (c.after = c.before + c.dt /\ c.after >= c.before)
          /\ c.ret => IF fc.kind = "Player" THEN c.after = 0
                      ELSE (10 <= c.after /\ c.after < 90)
          /\ i < Len(fire_log) => fire_log[i + 1].before = c.after

\* A Launcher that accumulated, fired, and accumulated again.
C8_Witness ==
    /\ fc.kind = "Launcher"
    /\ Len(fire_log) >= 3
    /\ \E i \in 2..(Len(fire_log) - 1) :
          /\ ~fire_log[i - 1].ret
          /\ fire_log[i].ret
          /\ ~fire_log[i + 1].ret

----------------------------------------------------------------------------
\* Cutscene

\* C9: in Reversing, next_scale computes
\* new = current_scale + ((1 - zoom_in_scale) / zoom_out_duration) * dt; if
\* new >= 1.0 it returns exactly 1.0 and the status becomes Completed, else it
\* returns new and stays Reversing. Cutscene(0.5, 0.4, 5.0, 2.0): (0.3, 0.5)
\* gives 0.45 and Reversing; (1.0, 1.0) gives 1.0 and Completed.
C9_Reversing ==
    \A i \in 1..Len(cs_last) :
       LET c == cs_last[i]
           new == c.current_scale
                    + ((((UNIT - c.zoom_in_scale) * UNIT) \div c.zoom_out_duration)
                          * c.time) \div UNIT
       IN c.status_before = "Reversing" =>
            /\ IF new >= UNIT
               THEN c.ret = Some(UNIT) /\ c.status_after = "Completed"
               ELSE c.ret = Some(new) /\ c.status_after = "Reversing"
            /\ (c.zoom_in_scale = 40 /\ c.zoom_out_duration = 200
                  /\ c.current_scale = 30 /\ c.time = 50)
                 => (c.ret = Some(45) /\ c.status_after = "Reversing")
            /\ (c.zoom_in_scale = 40 /\ c.zoom_out_duration = 200
                  /\ c.current_scale = 100 /\ c.time = 100)
                 => (c.ret = Some(UNIT) /\ c.status_after = "Completed")

\* A Reversing call from a scale below 1.0 that reaches or passes 1.0: 1.0 is
\* returned and the cutscene is Completed.
C9_Witness ==
    /\ cs_last # <<>>
    /\ cs_last[1].status_before = "Reversing"
    /\ cs_last[1].current_scale < UNIT
    /\ cs_last[1].time > 0
    /\ cs_last[1].ret = Some(UNIT)
    /\ cutscene.status = "Completed"

StatusOrder == <<"Zooming", "Spawning", "Reversing", "Completed">>
StatusRank(st) == CHOOSE k \in 1..4 : StatusOrder[k] = st

\* C10: under repeated next_scale calls the status only advances
\* Zooming -> Spawning -> Reversing -> Completed, one step at a time, never
\* back; in Completed a call returns None and leaves the status Completed.
C10_StatusOrder ==
    /\ \A i \in 1..Len(cs_last) :
          LET c == cs_last[i]
          IN /\ StatusRank(c.status_after) - StatusRank(c.status_before) \in {0, 1}
             /\ c.status_before = "Completed" =>
                   (c.ret = None /\ c.status_after = "Completed")
             /\ cutscene.status = c.status_after
    /\ \A k \in 1..(Len(cs_trace) - 1) :
          StatusRank(cs_trace[k + 1]) = StatusRank(cs_trace[k]) + 1

\* A cutscene that went through all four statuses and was called again.
C10_Witness ==
    /\ cs_trace = StatusOrder
    /\ cs_last # <<>>
    /\ cs_last[1].status_before = "Completed"
    /\ cs_last[1].time > 0

\* The calls of C11's first two sentences: None exactly on the Zooming call
\* that switches to Spawning and on every Completed call; every Spawning call
\* returns Some of the unchanged current_scale.
NoneCases(c) ==
    /\ (c.ret = None) <=>
          \/ (c.status_before = "Zooming" /\ c.status_after = "Spawning")
          \/ c.status_before = "Completed"
    /\ c.status_before = "Spawning" => c.ret = Some(c.current_scale)

\* A Zooming or Reversing call that does not return None.
ScalingCall(c) ==
    /\ c.status_before \in {"Zooming", "Reversing"}
    /\ c.ret # None

\* C11 as stated: None in exactly the two situations, Spawning returns the
\* unchanged scale, and every other Zooming/Reversing call returns Some of a
\* changed scale.
C11_NoneOrChanged ==
    \A i \in 1..Len(cs_last) :
       LET c == cs_last[i]
       IN /\ NoneCases(c)
          /\ ScalingCall(c) => c.ret.value # c.current_scale

\* C11 as amended: None in exactly the two situations and Spawning returns
\* Some of the unchanged scale; every other Zooming call returns Some of a
\* scale that is smaller when dt > 0 and equal when dt = 0; every Reversing
\* call returns Some of a scale that is larger when dt > 0 and the scale is
\* below 1.0, 1.0 when the scale is 1.0 or more, and equal when dt = 0 and the
\* scale is below 1.0.
C11_NoneCases ==
    \A i \in 1..Len(cs_last) :
       LET c == cs_last[i]
       IN /\ NoneCases(c)
          /\ (ScalingCall(c) /\ c.status_before = "Zooming") =>
                IF c.time > 0 THEN c.ret.value < c.current_scale
                ELSE c.ret.value = c.current_scale
          /\ (ScalingCall(c) /\ c.status_before = "Reversing") =>
                IF c.current_scale >= UNIT THEN c.ret.value = UNIT
                ELSE IF c.time > 0 THEN c.ret.value > c.current_scale
                ELSE c.ret.value = c.current_scale
          /\ c.status_before = "Reversing" => c.ret # None

\* The test's second call: Reversing at scale 1.0 with dt 1.0 returns Some of
\* the unchanged 1.0.
C11_Witness ==
    /\ cs_last # <<>>
    /\ cs_last[1].status_before = "Reversing"
    /\ cs_last[1].current_scale = UNIT
    /\ cs_last[1].time = UNIT
    /\ cs_last[1].ret = Some(UNIT)
    /\ cs_trace # <<>>
    /\ \E k \in 1..Len(cs_trace) : cs_trace[k] = "Spawning"

----------------------------------------------------------------------------
\* The camera systems

\* The sound cues logged for one machine ("Perspective" or "Cutscene").
CuesOf(by) == {i \in 1..Len(cam_sounds) : cam_sounds[i].by = by}

\* C12: the transition sound cue of a Cutscene, and of a Perspective, made by
\* new() (flag false) is played exactly once: on the first tick the camera
\* system advances it, whatever its status, and never again; the flag is true
\* from then on and is never reset.
C12_SoundOnce ==
    /\ \A i \in 1..Len(cam_sounds) :
          /\ cam_sounds[i].tick = 1
          /\ cam_sounds[i].sound = IF cam_sounds[i].by = "Perspective"
                                   THEN cam_init.perspective.sound
                                   ELSE cam_init.cutscene.sound_type
    /\ cam_ticks = 0 => cam_sounds = <<>>
    /\ cam_ticks >= 1 =>
          /\ cam_perspective.already_played_sound
          /\ cam_cutscene.already_played_sound
          /\ Cardinality(CuesOf("Perspective"))
                = (IF cam_init.perspective.already_played_sound THEN 0 ELSE 1)
          /\ Cardinality(CuesOf("Cutscene"))
                = (IF cam_init.cutscene.already_played_sound THEN 0 ELSE 1)

\* Two cameras, a Cutscene made by new() and put in Completed, a Perspective
\* made by new(): after three ticks each cue was played once.
C12_Witness ==
    /\ Len(cameras) = 2
    /\ cam_ticks >= 3
    /\ cam_init.cutscene.status = "Completed"
    /\ ~cam_init.cutscene.already_played_sound
    /\ cam_init.perspective.sound = "LongTransition"
    /\ Cardinality(CuesOf("Perspective")) = 1
    /\ Cardinality(CuesOf("Cutscene")) = 1

\* C13: a Perspective that starts shaking (Zooming) reaches Completed after
\* finitely many ticks with positive dt, so that the transition scene made
\* with a perspective shift observes Completed and exits.
C13_PerspectiveCompletes ==
    (cam_init.perspective.status = "Zooming") ~> (cam_perspective.status = "Completed")

----------------------------------------------------------------------------
\* Movement strategies

Rushing(m) == m.movement_type \in {"HorizontalRush", "ProjectileRush"}

\* C14: once a HorizontalRush or ProjectileRush movement has frozen its
\* direction, a call of next_move changes nothing in it, whatever the target.
C14_FrozenNoOp ==
    \A i \in 1..Len(mv_last) :
        LET c == mv_last[i]
        IN (Rushing(c.before) /\ c.before.freeze_direction) => c.after = c.before

\* A movement locked on (100, 100, 0) was called with the target
\* (999, 999, 0) and is still locked on (100, 100, 0).
C14_Witness ==
    /\ mv_last # <<>>
    /\ Rushing(mv_last[1].before)
    /\ mv_last[1].before.freeze_direction
    /\ mv_last[1].before.locked_direction = Some(<<100, 100, 0>>)
    /\ mv_last[1].target = <<999, 999, 0>>
    /\ mv.locked_direction = Some(<<100, 100, 0>>)

InRange(c) ==
    \/ Abs(c.current[1] - c.target[1]) <= 150
    \/ Abs(c.current[2] - c.target[2]) <= 150

\* C15: a call on an unlocked HorizontalRush movement locks it if and only
\* if the target is within 150 on the x axis or on the y axis, and otherwise
\* changes nothing; a call on an unlocked ProjectileRush movement always
\* locks it; the lock keeps that call's target as locked_direction.
C15_LockRule ==
    \A i \in 1..Len(mv_last) :
        LET c == mv_last[i]
            locks == /\ c.after.freeze_direction
                     /\ c.after.locked_direction = Some(c.target)
        IN ~c.before.freeze_direction =>
              /\ c.before.movement_type = "HorizontalRush" =>
                    IF InRange(c) THEN locks ELSE c.after = c.before
              /\ c.before.movement_type = "ProjectileRush" => locks

\* An unlocked HorizontalRush movement exactly 150 away on one axis and 151
\* on the other was locked; so was a ProjectileRush movement out of range.
C15_Witness ==
    /\ mv_last # <<>>
    /\ ~mv_last[1].before.freeze_direction
    /\ mv.freeze_direction
    /\ \/ /\ mv.movement_type = "HorizontalRush"
          /\ Abs(mv_last[1].current[1] - mv_last[1].target[1]) = 150
          /\ Abs(mv_last[1].current[2] - mv_last[1].target[2]) = 151
       \/ /\ mv.movement_type = "ProjectileRush"
          /\ ~InRange(mv_last[1])

----------------------------------------------------------------------------
\* The gameplay dispatcher

\* The system that ran last in the current frame.
LastRan == IF sim_order = <<>> THEN "none" ELSE sim_order[Len(sim_order)]

Before(first, second) ==
    \A i \in 1..Len(sim_order) :
        sim_order[i] = second => \E j \in 1..(i - 1) : sim_order[j] = first

\* C16: within a frame the strategy pass runs before the integration pass
\* and the integration pass before the collision pass, so that the collision
\* tests see the positions the frame's integration produced.
C16_TickOrder ==
    /\ Before("movement_tracking_system", "transform_update_system")
    /\ Before("transform_update_system", "collision_system")

Movers == {i \in 1..Len(sim.entities) : sim.entities[i].movement # None}

\* C17: the strategy pass leaves every Transform as it was and changes
\* Movement fields only; the position of an entity with a Movement changes
\* in TransformUpdateSystem alone, by velocity * dt on each axis.
C17_StrategyKeepsPositions ==
    /\ LastRan = "movement_tracking_system" =>
          \A i \in 1..Len(sim.entities) :
              [sim.entities[i] EXCEPT !.movement = sim_prev[i].movement] = sim_prev[i]
    /\ LastRan = "transform_update_system" =>
          \A i \in 1..Len(sim.entities) :
              IF HasMovement(sim_prev[i])
              THEN /\ sim.entities[i].x =
                         sim_prev[i].x + Scaled(sim_prev[i].movement.velocity_x, sim.dt)
                   /\ sim.entities[i].y =
                         sim_prev[i].y + Scaled(sim_prev[i].movement.velocity_y, sim.dt)
              ELSE sim.entities[i] = sim_prev[i]
    /\ LastRan \notin {"movement_tracking_system", "transform_update_system"} =>
          \A i \in Movers :
              sim.entities[i].x = sim_prev[i].x /\ sim.entities[i].y = sim_prev[i].y

\* The strategy pass has just given an entity a new velocity on both axes
\* and locked its direction.
C17_Witness ==
    /\ LastRan = "movement_tracking_system"
    /\ \E i \in Movers :
          /\ HasMovement(sim_prev[i])
          /\ sim.entities[i].movement.velocity_x # sim_prev[i].movement.velocity_x
          /\ sim.entities[i].movement.velocity_y # sim_prev[i].movement.velocity_y
          /\ sim.entities[i].movement.freeze_direction
          /\ ~sim_prev[i].movement.freeze_direction

\* C18: the rotation of an entity is set, and its launch sound played if it
\* has one, once: by the first run of TransformUpdateSystem that finds its
\* direction locked, which sets already_rotated; never again after that.
C18_SnapOnce ==
    \A i \in Movers :
        LET e == sim.entities[i]
        IN /\ e.snaps <= 1
           /\ e.launches = (IF e.movement.launch_sound # None THEN e.snaps ELSE 0)
           /\ e.movement.already_rotated <=> e.snaps = 1
           /\ e.snaps = 1 => e.movement.locked_direction # None
           /\ (LastRan = "transform_update_system" /\ HasMovement(sim_prev[i])) =>
                 /\ e.movement.locked_direction # None => e.movement.already_rotated
                 /\ sim_prev[i].movement.already_rotated => e.facing = sim_prev[i].facing

\* An entity that was rotated and heard in an earlier frame has been
\* processed again, and has moved, without a second rotation or sound.
C18_Witness ==
    /\ LastRan = "transform_update_system"
    /\ \E i \in Movers :
          /\ HasMovement(sim_prev[i])
          /\ sim_prev[i].movement.already_rotated
          /\ sim.entities[i].x # sim_prev[i].x
          /\ sim.entities[i].snaps = 1
          /\ sim.entities[i].launches = 1

\* C19: TransformUpdateSystem deletes the entity whose position after the
\* integration is outside the playable area, and no other: one on the edge
\* is kept; so an entity with a Movement that is left after the pass and
\* the end of its frame is within bounds.
C19_OutOfBoundsDeleted ==
    /\ LastRan = "transform_update_system" =>
          \A i \in Movers :
              HasMovement(sim_prev[i]) =>
                 LET e == sim.entities[i]
                     outside == \/ e.x < sim.area.min_x \/ e.x > sim.area.max_x
                                \/ e.y < sim.area.min_y \/ e.y > sim.area.max_y
                 IN IF outside THEN e.killed ELSE e.killed = sim_prev[i].killed
    /\ LastRan # "transform_update_system" =>
          \A i \in Movers :
              HasMovement(sim.entities[i]) =>
                 /\ sim.entities[i].x >= sim.area.min_x
                 /\ sim.entities[i].x <= sim.area.max_x
                 /\ sim.entities[i].y >= sim.area.min_y
                 /\ sim.entities[i].y <= sim.area.max_y

\* An entity that stood on the edge of the playable area a frame ago, and
\* was kept, has moved past it and has been deleted.
C19_Witness ==
    /\ LastRan = "transform_update_system"
    /\ \E i \in Movers :
          /\ HasMovement(sim_prev[i])
          /\ sim_prev[i].x = sim.area.max_x
          /\ ~sim_prev[i].killed
          /\ sim.entities[i].x > sim.area.max_x
          /\ sim.entities[i].killed

HitsOn(enemy) == {k \in 1..Len(sim_hits) : sim_hits[k].enemy = enemy}

Overlap(l, e) ==
    LET dx == Abs(sim_prev[l].x - sim_prev[e].x)
        dy == Abs(sim_prev[l].y - sim_prev[e].y)
    IN /\ 2 * dx <= 2 * sim_prev[e].collider.half_width + 35
       /\ 2 * dy <= 2 * sim_prev[e].collider.half_height + 5

\* C20: a laser whose box overlaps the box of an enemy that is not dead
\* takes 20 off that enemy's health once and is deleted; no laser damages
\* the same enemy twice, in that frame or in a later one.
C20_OneHitPerOverlap ==
    /\ \A j, k \in 1..Len(sim_hits) :
          (sim_hits[j].laser = sim_hits[k].laser /\ sim_hits[j].enemy = sim_hits[k].enemy)
             => j = k
    /\ \A i \in 1..Len(sim.entities) :
          sim.entities[i].kind = "Enemy" =>
             sim.entities[i].health = sim_init[i].health - 20 * Cardinality(HitsOn(i))
    /\ \A k \in 1..Len(sim_hits) :
          IF sim_hits[k].tick = sim.tick
          THEN sim.entities[sim_hits[k].laser].killed
          ELSE ~sim.entities[sim_hits[k].laser].alive
    /\ LastRan = "collision_system" =>
          \A l, e \in 1..Len(sim_prev) :
              (HasLaser(sim_prev[l]) /\ HasEnemy(sim_prev[e]) /\ Overlap(l, e)
                 /\ sim_prev[e].health > 0) =>
                 \/ \E k \in 1..Len(sim_hits) :
                       sim_hits[k] = [laser |-> l, enemy |-> e, tick |-> sim.tick]
                 \/ sim.entities[e].health <= 0

\* A laser hit an enemy of health 40 in an earlier frame: the enemy lives on
\* with health 20, hit once, and the laser is gone.
C20_Witness ==
    \E k \in 1..Len(sim_hits) :
        /\ sim_hits[k].tick < sim.tick
        /\ LastRan = "collision_system"
        /\ sim.entities[sim_hits[k].enemy].alive
        /\ sim.entities[sim_hits[k].enemy].health = 20
        /\ Cardinality(HitsOn(sim_hits[k].enemy)) = 1
        /\ ~sim.entities[sim_hits[k].laser].alive

DeathsOf(enemy) == {k \in 1..Len(sim_deaths) : sim_deaths[k].enemy = enemy}

\* C21: an enemy whose health is 0 or less takes no further damage, however
\* many lasers overlap it in the frame; an enemy that was killed has been
\* deleted, has had one ghost summoned where it stood and one death sound
\* played, and an enemy still living none.
C21_KilledOnce ==
    \A i \in 1..Len(sim.entities) :
        sim.entities[i].kind = "Enemy" =>
           LET e == sim.entities[i]
           IN /\ e.health > -20
              /\ Cardinality(DeathsOf(i)) = (IF e.health <= 0 THEN 1 ELSE 0)
              /\ e.health <= 0 => (e.killed \/ ~e.alive)
              /\ (LastRan = "collision_system" /\ e.alive /\ e.health <= 0) =>
                    \A k \in DeathsOf(i) :
                        sim_deaths[k].x = e.x /\ sim_deaths[k].y = e.y

\* Two lasers overlapped an enemy of health 20 in one frame: the first
\* killed it, the second left it alone.
C21_Witness ==
    /\ LastRan = "collision_system"
    /\ \E e, l1, l2 \in 1..Len(sim_prev) :
          /\ l1 # l2
          /\ HasEnemy(sim_prev[e]) /\ HasLaser(sim_prev[l1]) /\ HasLaser(sim_prev[l2])
          /\ sim_prev[e].health = 20
          /\ Overlap(l1, e) /\ Overlap(l2, e)
          /\ sim.entities[e].health = 0
          /\ Cardinality(DeathsOf(e)) = 1
          /\ Cardinality(HitsOn(e)) = 1

\* The entity j stood in contact with the player i before the last system ran.
Touches(i, j) ==
    intersects(sim_prev[j].collider, sim_prev[j].x, sim_prev[j].y,
               aabb_from_coordinates(sim_prev[i].collider, sim_prev[i].x, sim_prev[i].y))

\* The PlayerDeath sounds played in the current frame.
PlayerDeathCues ==
    {k \in 1..Len(sim.cues) :
        sim.cues[k].sound = "PlayerDeath" /\ sim.cues[k].tick = sim.tick}

\* C22: an invulnerable player is never deleted; when AttackedSystem has run,
\* a player that is not invulnerable and was in contact with an enemy has
\* been deleted and the PlayerDeath sound played in that frame; when
\* ProjectileHitSystem has run, every projectile that was in contact with a
\* player has been deleted, and the player too unless invulnerable; a player
\* deleted in a frame is gone when the next one begins.
C22_PlayerContact ==
    \A i \in 1..Len(sim.entities) :
        sim.entities[i].kind = "Player" =>
           LET p == sim.entities[i]
               joined == HasPlayerCollider(sim_prev[i])
           IN /\ p.invulnerable => (p.alive /\ ~p.killed)
              /\ (LastRan = "attacked_system" /\ joined /\ ~p.invulnerable
                    /\ \E j \in 1..Len(sim_prev) :
                          HasEnemy(sim_prev[j]) /\ Touches(i, j))
                 => (p.killed /\ PlayerDeathCues # {})
              /\ (LastRan = "projectile_hit_system" /\ joined)
                 => \A j \in 1..Len(sim_prev) :
                       (HasProjectile(sim_prev[j]) /\ Touches(i, j))
                       => /\ sim.entities[j].killed
                          /\ ~p.invulnerable => p.killed
              /\ (sim_order = <<>> /\ p.killed) => ~p.alive

\* An enemy has reached a player that is not invulnerable: the player is
\* marked for deletion and the PlayerDeath sound has been played.
C22_Witness ==
    /\ LastRan = "attacked_system"
    /\ \E i, j \in 1..Len(sim_prev) :
          /\ HasPlayerCollider(sim_prev[i]) /\ HasEnemy(sim_prev[j])
          /\ Touches(i, j)
          /\ ~sim_prev[i].invulnerable /\ ~sim_prev[i].killed
          /\ sim.entities[i].killed
          /\ PlayerDeathCues # {}

----------------------------------------------------------------------------
\* Ghosts

\* What the last run of GhostSystem did to every ghost: it took the frame
\* time off fade_time and set a scale no smaller than min_scale and, for a
\* ghost at or above min_scale, no larger than before; a ghost whose
\* fade_time had run out it deleted.
GhostRunRight ==
    \A k \in 1..Len(ghost_last) :
        \A i \in 1..Len(ghosts) :
            LET b == ghost_last[k].before[i]
                a == ghosts[i]
            IN b.alive =>
                  IF b.ghost.fade_time <= 0
                  THEN ~a.alive
                  ELSE /\ a.alive
                       /\ a.ghost.fade_time = b.ghost.fade_time - ghost_last[k].dt
                       /\ a.scale >= a.ghost.min_scale
                       /\ b.scale >= b.ghost.min_scale => a.scale <= b.scale

AllGhostsDeleted == \A i \in 1..Len(ghosts) : ~ghosts[i].alive

----------------------------------------------------------------------------
\* Collision boxes

\* C25: Collider::intersects is true exactly when the two boxes overlap or
\* touch on both axes, that is when the centres are no further apart on
\* each axis than the sum of the half extents; the rotations of the two
\* entities play no part, and the test gives the same answer both ways
\* round. Boxes of half extents (2, 2) at (0, 0) and (3, 0) intersect, at
\* (0, 0) and (5, 0) they do not.
C25_IntersectsIffOverlap ==
    HasReturned("intersects") =>
       LET a == call[1].args.a
           b == call[1].args.b
           result == call[1].result
           small == Collider(2, 2)
       IN /\ result.forward <=>
                /\ Abs(a.x - b.x) <= a.collider.half_width + b.collider.half_width
                /\ Abs(a.y - b.y) <= a.collider.half_height + b.collider.half_height
          /\ result.forward = result.reverse
          /\ (a.collider = small /\ b.collider = small /\ a.x = 0 /\ a.y = 0
                /\ b.y = 0)
             => /\ b.x = 3 => result.forward
                /\ b.x = 5 => ~result.forward

\* Two boxes of half extents (2, 2), one at (0, 0) and one turned and at
\* (4, 0), have been tested: they touch, and intersect.
C25_Witness ==
    /\ HasReturned("intersects")
    /\ call[1].args.a = [collider |-> Collider(2, 2), x |-> 0, y |-> 0, rotation |-> 0]
    /\ call[1].args.b = [collider |-> Collider(2, 2), x |-> 4, y |-> 0, rotation |-> 8]
    /\ call[1].result.forward

----------------------------------------------------------------------------
\* The playable area

\* C26: relative_coordinates sends (0, 0) to (min_x, min_y) and (1, 1) to
\* (max_x, max_y), and every pair of percentages between 0 and 1 to a point
\* that is not out of bounds; clamp_x and clamp_y return min for a value
\* below it, max for one above it and the value itself otherwise, and the
\* clamped point is never out of bounds.
C26_AreaRoundTrip ==
    /\ HasReturned("relative_coordinates") =>
          LET area == call[1].args.area
              x == call[1].args.x_percentage
              y == call[1].args.y_percentage
              one == F32FromInt(1)
              pos == call[1].result
          IN /\ (x = F32Zero /\ y = F32Zero) => pos = <<area.min_x, area.min_y>>
             /\ (x = one /\ y = one) => pos = <<area.max_x, area.max_y>>
             /\ ~out_of_bounds_f32(area, pos[1], pos[2])
    /\ HasReturned("clamp") =>
          LET area == call[1].args.area
              x == call[1].args.x
              y == call[1].args.y
              pos == call[1].result
          IN /\ pos[1] = (IF F32Lt(x, area.min_x) THEN area.min_x
                          ELSE IF F32Lt(area.max_x, x) THEN area.max_x ELSE x)
             /\ pos[2] = (IF F32Lt(y, area.min_y) THEN area.min_y
                          ELSE IF F32Lt(area.max_y, y) THEN area.max_y ELSE y)
             /\ ~out_of_bounds_f32(area, pos[1], pos[2])

----------------------------------------------------------------------------
\* The text level format

\* The x percentages recorded for the entity chars of the row r, in order.
RowXs(layout, r, num_rows, y_index) ==
    LET mine == SelectSeq(layout, LAMBDA rec : rec[3] = (y_index * UNIT) \div num_rows)
    IN [k \in 1..Len(mine) |-> mine[k][2]]

\* The positions in the row r, counted from one, of its entity chars.
EntityColumns(r) == {i \in 1..Len(r) : EntityOfChar(r[i]) # None}

\* C27: the x percentage recorded for an entity char is its position in the
\* row, counted from the left starting at one, over the number of columns:
\* in the row "P   F" the P is recorded at 20% and the F at 100%.
C27_ColumnOverWidth ==
    HasReturned("get_level_entities") =>
       \A y \in 1..Len(call[1].args) :
          LET r == call[1].args[y]
              xs == RowXs(call[1].result.layout, r, Len(call[1].args),
                          Len(call[1].args) - y)
          IN /\ {xs[k] : k \in 1..Len(xs)} =
                   {(i * UNIT) \div Len(r) : i \in EntityColumns(r)}
             /\ r = <<"P", " ", " ", " ", "F">> => xs = <<20, 100>>

----------------------------------------------------------------------------
\* The lifetime of the entities of a scene

\* The entities a gameplay scene spawns.
SceneTypes == EnemyTypes \cup {"Player", "Laser", "Projectile", "Ghost"}

\* C28: every entity a gameplay scene has spawned (the enemies and the
\* player of the level, lasers, projectiles, ghosts) carries the CleanupTag
\* once the frame it was spawned in is over, and when the scene has stopped
\* none of them is alive.
C28_SceneEntitiesCleanedUp ==
    \A i \in 1..Len(stage.entities) :
        LET e == stage.entities[i]
        IN (e.type \in SceneTypes /\ e.alive) => (e.cleanup /\ ~stage.stopped)

----------------------------------------------------------------------------
\* The transition scene and what ends it

\* A transition scene with no perspective shift and no cutscene.
FadeOnly == ts.perspective_shift = None /\ ts.cutscene = None

\* C29: a fade-only transition scene is replaced by a GameplayState in
\* LevelMode on the update at which FadeStatus becomes completed and on no
\* other: the overlay's Fader starts at Darken, an update that leaves the scene
\* running leaves the Fader short of Done and FadeStatus not completed, and the
\* update that replaces the scene finds the Fader at Lighten and takes it to
\* Done. FadeStatus is cleared when the scene is left, and every fade-only
\* scene is replaced in the end.
C29_FadeOnlySwitch ==
    /\ [][ (scene = "TransitionNew" /\ FadeOnly /\ scene' = "Transition")
              => /\ ts'.fader # None
                 /\ ts'.fader.value.fade_direction = "Darken"
                 /\ ~world'.fade_status.completed ]_vars
    /\ [][ (scene = "Transition" /\ FadeOnly /\ scene' = "Transition")
              => /\ ts'.fader.value.fade_direction # "Done"
                 /\ <<ts.fader.value.fade_direction, ts'.fader.value.fade_direction>>
                       \in {<<"Darken", "Darken">>, <<"Darken", "Lighten">>,
                            <<"Lighten", "Lighten">>}
                 /\ ~world'.fade_status.completed ]_vars
    /\ [][ (scene = "Transition" /\ FadeOnly /\ scene' # "Transition")
              => /\ scene' = "GameplayNew"
                 /\ gs' = GameplayState_new(ts.levels, "LevelMode")
                 /\ ts.fader.value.fade_direction = "Lighten"
                 /\ \E dt \in TransitionDts :
                       fade_completed(next_alpha_change(ts.fader.value, dt).fader)
                 /\ ~world'.fade_status.completed ]_vars
    /\ ((scene \in {"TransitionNew", "Transition"} /\ FadeOnly)
           ~> (scene = "GameplayNew"))

\* A fade-only scene has been replaced: the overlay is gone and FadeStatus is clear.
C29_Witness ==
    /\ scene = "GameplayNew"
    /\ FadeOnly
    /\ gs.gameplay_mode = "LevelMode"
    /\ ts.fader = None
    /\ OverlayPositions(world.entities) = {}
    /\ ~world.fade_status.completed

\* A transition scene with a perspective shift or a cutscene.
Managed == ts.perspective_shift # None \/ ts.cutscene # None

\* C30: a transition scene with a perspective shift or a cutscene is replaced
\* only on an update at which that Perspective or that Cutscene is Completed,
\* and then by a GameplayState in LevelMode; while the scene runs neither is
\* Completed, whether or not the fade is.
C30_ManagedSwitch ==
    /\ [][ (scene = "Transition" /\ Managed /\ scene' # "Transition")
              => /\ scene' = "GameplayNew"
                 /\ gs' = GameplayState_new(ts.levels, "LevelMode")
                 /\ \/ ts.perspective_shift # None /\ world'.perspective.status = "Completed"
                    \/ ts.cutscene # None /\ world'.cutscene.status = "Completed" ]_vars
    /\ []((scene = "Transition" /\ Managed)
             => /\ ts.perspective_shift # None => world.perspective.status # "Completed"
                /\ ts.cutscene # None => world.cutscene.status # "Completed")

\* A cutscene has ended its scene although the fade was completed long before.
C30_Witness ==
    /\ scene = "GameplayNew"
    /\ ts.cutscene # None
    /\ world.cutscene.status = "Completed"
    /\ world.fade_status.completed
    /\ gs.gameplay_mode = "LevelMode"

\* The shards of glass in the world.
GlassPositions == {i \in 1..Len(world.entities) : world.entities[i].type = "Glass"}

\* C31: in a cutscene transition the glass is spawned exactly once: the world
\* never holds more shards than one call of init_glass makes, and a scene
\* that its cutscene has ended has spawned its glass.
C31_GlassOnce ==
    /\ Cardinality(GlassPositions) <= Len(GlassGrid)
    /\ (scene = "GameplayNew" /\ ts.cutscene # None /\ world.cutscene.status = "Completed")
          => ts.glass_spawned

----------------------------------------------------------------------------
\* The gameplay scene and what ends it

\* C32: GameplayState::update switches to a TransitionState only in
\* TransitionMode, or when it counts no enemy and level_is_loaded is set,
\* which only an update that counted an enemy sets; in LevelMode an update
\* that counts an enemy never switches, and level_is_loaded is never reset
\* while the scene runs.
C32_SwitchRule ==
    /\ [][ (scene = "Gameplay" /\ scene' = "TransitionNew")
              => \/ gs.gameplay_mode = "TransitionMode"
                 \/ gs'.total = 0 /\ gs.level_is_loaded ]_vars
    /\ [][ (scene = "Gameplay" /\ gs.gameplay_mode = "LevelMode" /\ gs'.total > 0)
              => scene' = "Gameplay" ]_vars
    /\ [][ scene = "Gameplay"
              => gs'.level_is_loaded = (gs.level_is_loaded \/ gs'.total > 0) ]_vars

\* A level whose enemies were seen and are gone has been left for the fade.
C32_Witness ==
    /\ scene = "TransitionNew"
    /\ gs.gameplay_mode = "LevelMode"
    /\ gs.total = 0
    /\ gs.level_is_loaded
    /\ ts.perspective_shift = None

----------------------------------------------------------------------------
\* Levels, once more

\* C33: on a Levels value loaded with no small level every pop returns None
\* and leaves the value as it is, use_small_levels still set, whatever large
\* levels are queued.
C33_NoSmallNoStatus ==
    init_levels.small_levels = <<>>
        => /\ levels = init_levels
           /\ levels.use_small_levels
           /\ \A i \in 1..Len(popped) : popped[i].status = None

\* Large levels are queued, no small one, and pop has been called several times.
C33_Witness ==
    /\ init_levels.small_levels = <<>>
    /\ Len(init_levels.large_levels) >= 2
    /\ Len(popped) >= 3
    /\ popped[Len(popped)].status = None

\* The levels a Levels value holds, in the order pop takes them.
QueuedLevels(l) == Reverse(l.small_levels) \o Reverse(l.large_levels)

\* The levels the calls of pop have returned so far, in order.
EmittedLevels ==
    LET returned == SelectSeq(popped, LAMBDA r : r.status # None /\ r.status # AllDone)
    IN [i \in 1..Len(returned) |-> returned[i].status.metadata]

\* The levels returned followed by the levels still queued are the levels
\* loaded, in the order small levels last-first, then large levels last-first.
LevelsConserved == EmittedLevels \o QueuedLevels(levels) = QueuedLevels(init_levels)

\* C34 as stated: no level is duplicated or lost, the order is small levels
\* last-first then large levels last-first, and once pop has been called as
\* many times as levels were loaded every one of them has been returned.
C34_EveryLevelOnce ==
    /\ LevelsConserved
    /\ Len(popped) >= Len(QueuedLevels(init_levels))
          => EmittedLevels = QueuedLevels(init_levels)

\* C34, amended: the same for a Levels value loaded with at least one small
\* level.
C34_EveryLevelOnceFromSmall ==
    /\ LevelsConserved
    /\ (init_levels.small_levels # <<>> /\ Len(popped) >= Len(QueuedLevels(init_levels)))
          => EmittedLevels = QueuedLevels(init_levels)

\* Small and large levels were loaded and all of them have been returned.
C34_Witness ==
    /\ Len(init_levels.small_levels) >= 2
    /\ Len(init_levels.large_levels) >= 2
    /\ EmittedLevels = QueuedLevels(init_levels)
    /\ QueuedLevels(levels) = <<>>

----------------------------------------------------------------------------
\* The lock of a Movement

\* C35: a Movement created unlocked has freeze_direction set exactly when
\* locked_direction is set, has already_rotated set only when
\* locked_direction is set, and has none of the three set if it is a
\* Gravitate one.
C35_LockFlags ==
    \A i \in Movers :
        LET m == sim.entities[i].movement
        IN /\ m.freeze_direction <=> (m.locked_direction # None)
           /\ m.already_rotated => (m.locked_direction # None)
           /\ m.movement_type = "Gravitate"
                 => /\ ~m.freeze_direction
                    /\ m.locked_direction = None
                    /\ ~m.already_rotated

\* A rush enemy has locked and been rotated next to a Gravitate enemy that
\* is under way, and another rush enemy is still waiting.
C35_Witness ==
    /\ \E i \in Movers :
          LET m == sim.entities[i].movement
          IN /\ m.movement_type = "HorizontalRush"
             /\ m.freeze_direction /\ m.locked_direction # None /\ m.already_rotated
    /\ \E i \in Movers :
          LET m == sim.entities[i].movement
          IN m.movement_type = "Gravitate" /\ (m.velocity_x # 0 \/ m.velocity_y # 0)

----------------------------------------------------------------------------
\* Where a level's entities start

----------------------------------------------------------------------------
\* The player in the playable area

HeroInside(x, y) == ~out_of_bounds_f32(hero.area, x, y)

\* C37: after any runs of PlayerSystem, an axis of the player's position
\* that has been updated lies within [min, max] of the playable area, and a
\* player that started inside the area is not out_of_bounds.
C37_PlayerKeptInside ==
    /\ hero.moved_x => /\ ~F32Lt(hero.x, hero.area.min_x)
                       /\ ~F32Lt(hero.area.max_x, hero.x)
    /\ hero.moved_y => /\ ~F32Lt(hero.y, hero.area.min_y)
                       /\ ~F32Lt(hero.area.max_y, hero.y)
    /\ HeroInside(hero.start[1], hero.start[2]) => HeroInside(hero.x, hero.y)

\* A player that started in the middle of a window's area has been moved on
\* both axes, is held at the right edge and is off its first row.
C37_Witness ==
    /\ hero.area # PlayableArea_default
    /\ hero.tick >= 2 /\ hero.tick <= MaxHeroTicks
    /\ HeroInside(hero.start[1], hero.start[2])
    /\ hero.start[1] # hero.area.max_x
    /\ hero.moved_x /\ hero.moved_y
    /\ hero.x = hero.area.max_x
    /\ hero.y # hero.start[2]

----------------------------------------------------------------------------
\* The player's fire rate

\* What every state after a run of PlayerSystem shows of the fire gate.
FireGateState ==
    (hero.last # <<>> /\ hero.character.fire_delay > 0) =>
        LET l == hero.last[1]
        IN /\ \A i \in 1..(Len(hero.calls) - 1) : ~(hero.calls[i] /\ hero.calls[i + 1])
           /\ l.called <=> l.fire_input
           /\ l.ret => l.called
           /\ l.spawned = (IF l.fire_input /\ l.ret THEN 1 ELSE 0)
           /\ Len(hero.lasers) = hero.sounds
           /\ Len(hero.lasers) = Cardinality({i \in 1..Len(hero.calls) : hero.calls[i]})

\* A run in which can_fire returns true again comes after false calls whose
\* frame times sum to fire_delay or more.
FireGateStep ==
    (hero'.last # <<>> /\ hero'.last[1].ret /\ hero.fired /\ hero.character.fire_delay > 0)
        => hero.waited >= hero.character.fire_delay

\* C39: for a Player with fire_delay > 0, can_fire never returns true on two
\* consecutive calls; between two calls that return true the frame times of
\* the false calls in between sum to at least fire_delay; PlayerSystem calls
\* can_fire exactly on the runs that have a laser to fire, and spawns a laser
\* exactly on those of them where can_fire returned true.
C39_FireGate == []FireGateState /\ [][FireGateStep]_vars

\* A player fired, was refused once, and fired again.
C39_Witness ==
    /\ hero.tick = 3 /\ hero.tick <= MaxHeroTicks
    /\ hero.calls = <<TRUE, FALSE, TRUE>>
    /\ Len(hero.lasers) = 2
    /\ hero.last # <<>> /\ hero.last[1].ret /\ hero.fired

----------------------------------------------------------------------------
\* The camera in a fade-only transition scene

\* C38: in a transition scene with neither a perspective shift nor a
\* cutscene, where the camera systems run on the default Perspective and the
\* default Cutscene, every camera keeps the scale and the rotation it had and
\* no transition sound cue is played.
C38_DefaultsInert ==
    (cam_init.perspective = Perspective_default /\ cam_init.cutscene = Cutscene_default)
        => /\ \A i \in 1..Len(cameras) : cameras[i] = Transform_default
           /\ cam_sounds = <<>>

----------------------------------------------------------------------------
\* The damaged background of a cutscene

\* C40: when a cutscene transition scene has exited on a Completed cutscene,
\* TransitionState::update has read the status Reversing on an earlier tick
\* and every background sprite is the damaged background (sprite 1).
C40_DamagedBeforeExit ==
    (scene = "GameplayNew" /\ ts.cutscene # None /\ "Completed" \in ts.observed)
        => /\ "Reversing" \in ts.observed
           /\ \A i \in 1..Len(world.entities) :
                 world.entities[i].type = "Background"
                    => world.entities[i].sprite_number = 1

========================================================================
